---------------------------- MODULE Spec2Model ----------------------------
(***************************************************************************)
(* A model of the Scheme interpreter of src/scheme (scheme.py and          *)
(* scheme_primitives.py): Scheme values, the chain of environment frames,  *)
(* the special forms and the tail-call optimised evaluator.                *)
(*                                                                         *)
(* Frames are heap objects: the variable frames is the sequence of every   *)
(* Frame constructed so far, a frame is named by its index, and frame 1 is *)
(* the global frame (parent 0 stands for None).  The evaluator is a family *)
(* of recursive operators that thread the interpreter state st (the heap   *)
(* and the host-stack bookkeeping) through every call in the order in      *)
(* which the Python code makes them; a raised exception is a result with   *)
(* k = "err" that carries the state at the raise.  The variable repl is    *)
(* the state of a run of read_eval_print_loop (pc "off" when none runs).   *)
(*                                                                         *)
(* The module also models two other programs of the repository, each in a  *)
(* variable of its own: colony, the places and insects of an AntColony of  *)
(* src/ants/ants.py, and hog, a run of play of src/hog/hog.py (pc "off"    *)
(* when there is none).                                                    *)
(***************************************************************************)
EXTENDS Integers, Sequences, FiniteSets, TLC

VARIABLES frames, last, steps, repl, colony, hog

vars == <<frames, last, steps, repl, colony, hog>>

-----------------------------------------------------------------------------
(* Bounds of the model.                                                    *)

MaxApiSteps == 3
MaxSteps == 2
MaxIter == 3
MaxHostDepth == 12
MaxOperands == 3

-----------------------------------------------------------------------------
(* Scheme values.  Python represents symbols and string literals as str,   *)
(* numbers as int or float, booleans as bool; every variant has its own    *)
(* payload field here.  A float is the fraction p/q in lowest terms with   *)
(* q > 0 (the floats of the model are quotients of small integers).        *)

nil == [t |-> "nil"]
okay == [t |-> "okay"]
Num(n) == [t |-> "num", n |-> n]
Float(p, q) == [t |-> "float", p |-> p, q |-> q]
Bool(b) == [t |-> "bool", b |-> b]
Sym(s) == [t |-> "sym", s |-> s]
Str(s) == [t |-> "str", s |-> s]
Pair(first, second) == [t |-> "pair", first |-> first, second |-> second]
PrimitiveProcedure(name, use_env) ==
    [t |-> "prim", name |-> name, use_env |-> use_env]
LambdaProcedure(formals, body, env) ==
    [t |-> "lambda", formals |-> formals, body |-> body, env |-> env]
(* LambdaProcedure.__str__ prints this list.                               *)
LambdaProcedure_str(self) == Pair(Sym("lambda"), Pair(self.formals, self.body))
MuProcedure(formals, body) == [t |-> "mu", formals |-> formals, body |-> body]
Evaluate(expr, env) == [t |-> "evaluate", expr |-> expr, env |-> env]

(* The Scheme list of the elements of a sequence (what the reader builds    *)
(* for a parenthesised form).                                              *)
RECURSIVE SchemeList(_)
SchemeList(seq) ==
    IF seq = <<>> THEN nil ELSE Pair(Head(seq), SchemeList(Tail(seq)))

(* Results of a call: a value, or a raised exception.                      *)
Ok(v, st) == [k |-> "ok", v |-> v, st |-> st]
Raise(exc, msg, st) == [k |-> "err", exc |-> exc, msg |-> msg, st |-> st]

-----------------------------------------------------------------------------
(* Type predicates of scheme_primitives.py.                                *)

scheme_booleanp(x) == x.t = "bool"
scheme_true(val) == ~(val.t = "bool" /\ val.b = FALSE)
scheme_false(val) == val.t = "bool" /\ val.b = FALSE
scheme_pairp(x) == x.t = "pair"
scheme_nullp(x) == x.t = "nil"
scheme_stringp(x) == x.t = "str"
scheme_symbolp(x) == x.t = "sym"
scheme_numberp(x) == x.t \in {"num", "float"}
scheme_atomp(x) ==
    scheme_booleanp(x) \/ scheme_numberp(x) \/ scheme_symbolp(x) \/ scheme_nullp(x)

RECURSIVE scheme_listp(_)
scheme_listp(x) ==
    IF x.t = "nil" THEN TRUE
    ELSE IF x.t # "pair" THEN FALSE
    ELSE scheme_listp(x.second)

self_evaluating(expr) ==
    scheme_atomp(expr) \/ scheme_stringp(expr) \/ expr.t = "okay"

-----------------------------------------------------------------------------
(* Pair and nil of scheme_reader.py, and the host operations len() and     *)
(* x[k] on the values the interpreter applies them to.  TypeErr and        *)
(* IndexErr stand for the host exceptions.                                 *)

TypeErr == -1
IndexErr == [t |-> "IndexError"]
TypeErrItem == [t |-> "TypeError"]

(* Pair.__len__: the number of pairs; TypeError on an improper list.       *)
RECURSIVE Pair_len(_)
Pair_len(p) ==
    IF p.second.t = "pair"
    THEN LET n == Pair_len(p.second) IN IF n = TypeErr THEN TypeErr ELSE n + 1
    ELSE IF p.second.t = "nil" THEN 1 ELSE TypeErr

(* len(x): Pair.__len__, nil.__len__, the length of a str; any other       *)
(* value has no len().                                                     *)
py_len(x) ==
    CASE x.t = "pair" -> Pair_len(x)
      [] x.t = "nil" -> 0
      [] x.t \in {"sym", "str"} -> Len(x.s)
      [] OTHER -> TypeErr

(* Pair.__getitem__.                                                       *)
RECURSIVE Pair_getitem(_, _)
Pair_getitem(p, k) ==
    IF k = 0 THEN p.first
    ELSE IF p.second.t = "nil" THEN IndexErr
    ELSE IF p.second.t # "pair" THEN TypeErrItem
    ELSE Pair_getitem(p.second, k - 1)

(* x[k] for k >= 0: Pair.__getitem__, nil.__getitem__, a character of a    *)
(* str (a one-character str of the same kind).                             *)
py_getitem(x, k) ==
    CASE x.t = "pair" -> Pair_getitem(x, k)
      [] x.t = "nil" -> IndexErr
      [] x.t \in {"sym", "str"} ->
            IF k < Len(x.s) THEN [t |-> x.t, s |-> SubSeq(x.s, k + 1, k + 1)]
            ELSE IndexErr
      [] OTHER -> TypeErrItem

IsItem(v) == v.t \notin {"IndexError", "TypeError"}

(* list(x) of a proper Scheme list: its elements as a host sequence.       *)
RECURSIVE py_list(_)
py_list(x) ==
    IF x.t = "pair" THEN <<x.first>> \o py_list(x.second) ELSE <<>>

-----------------------------------------------------------------------------
(* Environments: class Frame.                                              *)

Frame(parent) == [bindings |-> <<>>, parent |-> parent]

(* What stands in the place of a frame index for a value that is not a     *)
(* Frame object (the parent None of the global frame, and any Scheme value *)
(* that the host passes where an environment is expected).                 *)
NotAFrame == 0

(* Frame.define: self.bindings[symbol] = value.                            *)
Frame_define(fs, self, symbol, value) ==
    [fs EXCEPT ![self].bindings =
        [s \in (DOMAIN fs[self].bindings) \cup {symbol} |->
            IF s = symbol THEN value ELSE fs[self].bindings[s]]]

(* Frame.lookup as it would be if the parent chain were searched first.    *)
RECURSIVE Frame_lookup_outer(_, _, _)
Frame_lookup_outer(self, symbol, st) ==
    LET up == IF st.frames[self].parent # 0
              THEN Frame_lookup_outer(st.frames[self].parent, symbol, st)
              ELSE Raise("SchemeError", "unknown identifier", st)
    IN  IF up.k = "ok" THEN up
        ELSE IF symbol \in DOMAIN st.frames[self].bindings
        THEN Ok(st.frames[self].bindings[symbol], st)
        ELSE up

(* Frame.lookup: this frame's bindings, then the parent's.  An env that is *)
(* no Frame (NotAFrame) has no attribute lookup.                           *)
RECURSIVE Frame_lookup(_, _, _)
Frame_lookup(self, symbol, st) ==
    IF self = NotAFrame
    THEN Raise("AttributeError", "object has no attribute 'lookup'", st)
    ELSE IF symbol \in DOMAIN st.frames[self].bindings
    THEN Ok(st.frames[self].bindings[symbol], st)
    ELSE IF st.frames[self].parent # 0
    THEN Frame_lookup(st.frames[self].parent, symbol, st)
    ELSE Raise("SchemeError", "unknown identifier", st)

(* The loop of make_child_frame: frame.define(formals[x], vals[x]) for x   *)
(* from 0 to n-1.                                                          *)
RECURSIVE bind_formals(_, _, _, _, _, _)
bind_formals(fs, frame, formals, vals, x, n) ==
    IF x = n THEN fs
    ELSE bind_formals(
            Frame_define(fs, frame, py_getitem(formals, x).s, py_getitem(vals, x)),
            frame, formals, vals, x + 1, n)

(* make_child_frame as it would be if it bound as many formals as there    *)
(* are values for, without comparing the lengths.                          *)
make_child_frame_zip(self, formals, vals, st) ==
    LET fs == Append(st.frames, Frame(self))
        nf == py_len(formals)
        nv == py_len(vals)
    IN  IF nf = TypeErr \/ nv = TypeErr
        THEN Raise("TypeError", "object has no len()", [st EXCEPT !.frames = fs])
        ELSE Ok(Len(fs),
                [st EXCEPT !.frames =
                    bind_formals(fs, Len(fs), formals, vals, 0,
                                 IF nf < nv THEN nf ELSE nv)])

(* Frame.make_child_frame: the value of a successful call is the index of  *)
(* the new frame.                                                          *)
make_child_frame(self, formals, vals, st) ==
    LET fs == Append(st.frames, Frame(self))
        frame == Len(fs)
        st1 == [st EXCEPT !.frames = fs]
        nf == py_len(formals)
        nv == py_len(vals)
    IN  IF self = NotAFrame
        THEN Raise("AttributeError", "object has no attribute 'make_child_frame'", st)
        ELSE IF nf = TypeErr \/ nv = TypeErr
        THEN Raise("TypeError", "object has no len()", st1)
        ELSE IF nf = nv
        THEN Ok(frame,
                [st1 EXCEPT !.frames = bind_formals(fs, frame, formals, vals, 0, nf)])
        ELSE Raise("SchemeError", "Invalid number of arguments", st1)

-----------------------------------------------------------------------------
(* Utility methods for checking the structure of Scheme programs.  Each    *)
(* returns "" when the check passes and the SchemeError's message when it  *)
(* raises.                                                                 *)

check_form(expr, min, max) ==
    IF ~scheme_listp(expr) THEN "badly formed expression"
    ELSE IF py_len(expr) < min THEN "too few operands in form"
    ELSE IF py_len(expr) > max THEN "too many operands in form"
    ELSE ""

Inf == 1000000

(* list.remove(v): the list without its first element equal to v.          *)
RECURSIVE list_remove(_, _)
list_remove(lst, v) ==
    IF lst = <<>> THEN <<>>
    ELSE IF Head(lst) = v THEN Tail(lst)
    ELSE <<Head(lst)>> \o list_remove(Tail(lst), v)

list_contains(lst, v) == \E i \in 1..Len(lst) : lst[i] = v

(* The for loop of check_formals over x in range(len(formals)).            *)
(* The loop of check_formals as it would be if a symbol were compared with *)
(* its successor only.                                                     *)
RECURSIVE check_formals_loop_adjacent(_, _, _, _)
check_formals_loop_adjacent(formals, python_list, x, n) ==
    IF x = n THEN ""
    ELSE IF ~scheme_symbolp(py_getitem(formals, x)) THEN "invalid scheme symbol"
    ELSE IF x + 1 < n /\ py_getitem(formals, x + 1) = py_getitem(formals, x)
    THEN "repeated symbol(s)"
    ELSE check_formals_loop_adjacent(formals, python_list, x + 1, n)

RECURSIVE check_formals_loop(_, _, _, _)
check_formals_loop(formals, python_list, x, n) ==
    IF x = n THEN ""
    ELSE IF ~scheme_symbolp(py_getitem(formals, x)) THEN "invalid scheme symbol"
    ELSE LET removed == list_remove(python_list, py_getitem(formals, x))
         IN  IF list_contains(removed, py_getitem(formals, x))
             THEN "repeated symbol(s)"
             ELSE check_formals_loop(formals, removed, x + 1, n)

(* check_formals: nothing is checked, and nothing raised, when formals is  *)
(* not a well-formed list.                                                 *)
check_formals(formals) ==
    IF scheme_listp(formals)
    THEN check_formals_loop(formals, py_list(formals), 0, py_len(formals))
    ELSE ""

-----------------------------------------------------------------------------
(* Primitive procedures (scheme_primitives.py).  A host call with the      *)
(* wrong number of arguments raises TypeError.                             *)

(* _check_nums: the message of the SchemeError, "" when all are numbers.   *)
check_nums(vals) ==
    IF \E i \in 1..Len(vals) : ~scheme_numberp(vals[i])
    THEN "operand is not a number" ELSE ""

RECURSIVE arith_fold(_, _, _)
arith_fold(fn, s, vals) ==
    IF vals = <<>> THEN s
    ELSE arith_fold(fn,
                    CASE fn = "add" -> s + Head(vals).n
                      [] fn = "sub" -> s - Head(vals).n
                      [] fn = "mul" -> s * Head(vals).n,
                    Tail(vals))

(* _arith on integers: round(s) == s always holds.                         *)
arith(fn, init, vals, st) ==
    IF check_nums(vals) # "" THEN Raise("SchemeError", check_nums(vals), st)
    ELSE Ok(Num(arith_fold(fn, init, vals)), st)

scheme_add(vals, st) == arith("add", 0, vals, st)

scheme_sub(vals, st) ==
    IF Len(vals) = 0 THEN Raise("TypeError", "missing argument", st)
    ELSE IF check_nums(vals) # "" THEN Raise("SchemeError", check_nums(vals), st)
    ELSE IF Len(vals) = 1 THEN Ok(Num(0 - vals[1].n), st)
    ELSE arith("sub", vals[1].n, Tail(vals), st)

scheme_mul(vals, st) == arith("mul", 1, vals, st)

Abs(n) == IF n < 0 THEN 0 - n ELSE n

RECURSIVE Gcd(_, _)
Gcd(a, b) == IF b = 0 THEN a ELSE Gcd(b, a % b)

(* The float p/q (q # 0).                                                  *)
FloatOf(p, q) ==
    LET g == Gcd(Abs(p), Abs(q))
        sgn == IF q < 0 THEN 0 - 1 ELSE 1
    IN  Float((sgn * p) \div g, (sgn * q) \div g)

(* round(s) == s: the int when the fraction p/q is a whole number.         *)
Rounded(p, q) ==
    IF FloatOf(p, q).q = 1 THEN Num(FloatOf(p, q).p) ELSE FloatOf(p, q)

(* _arith(operator.truediv, val0, vals) on integers: the quotient          *)
(* val0 / vals[1] / ... as the fraction p/q; ZeroDivisionError at the      *)
(* first zero divisor.                                                     *)
RECURSIVE truediv_fold(_, _, _, _)
truediv_fold(p, q, vals, st) ==
    IF vals = <<>> THEN Ok(Rounded(p, q), st)
    ELSE IF Head(vals).n = 0 THEN Raise("ZeroDivisionError", "division by zero", st)
    ELSE truediv_fold(p, q * Head(vals).n, Tail(vals), st)

(* The try ... except ZeroDivisionError as err: raise SchemeError(err) of  *)
(* the division primitives.                                                *)
CatchZeroDivision(r) ==
    IF r.k = "err" /\ r.exc = "ZeroDivisionError"
    THEN Raise("SchemeError", r.msg, r.st)
    ELSE r

scheme_div(vals, st) ==
    IF Len(vals) = 0 THEN Raise("TypeError", "missing argument", st)
    ELSE IF check_nums(vals) # "" THEN Raise("SchemeError", check_nums(vals), st)
    ELSE CatchZeroDivision(
            IF Len(vals) = 1
            THEN IF vals[1].n = 0
                 THEN Raise("ZeroDivisionError", "division by zero", st)
                 ELSE Ok(FloatOf(1, vals[1].n), st)
            ELSE truediv_fold(vals[1].n, 1, Tail(vals), st))

(* pow(val0, val1) on integers: an int for val1 >= 0, a float for          *)
(* val1 < 0, ZeroDivisionError for zero to a negative power.               *)
RECURSIVE int_pow(_, _)
int_pow(a, n) == IF n = 0 THEN 1 ELSE a * int_pow(a, n - 1)

host_pow(val0, val1, st) ==
    IF val1 >= 0 THEN Ok(Num(int_pow(val0, val1)), st)
    ELSE IF val0 = 0
    THEN Raise("ZeroDivisionError", "0.0 cannot be raised to a negative power", st)
    ELSE Ok(FloatOf(1, int_pow(val0, 0 - val1)), st)

scheme_expt(vals, st) ==
    IF Len(vals) # 2 THEN Raise("TypeError", "wrong number of arguments", st)
    ELSE IF check_nums(vals) # "" THEN Raise("SchemeError", check_nums(vals), st)
    ELSE host_pow(vals[1].n, vals[2].n, st)

(* int(val0 / val1): the quotient truncated toward zero.                   *)
scheme_quo(vals, st) ==
    IF Len(vals) # 2 THEN Raise("TypeError", "wrong number of arguments", st)
    ELSE IF check_nums(vals) # "" THEN Raise("SchemeError", check_nums(vals), st)
    ELSE CatchZeroDivision(
            IF vals[2].n = 0 THEN Raise("ZeroDivisionError", "division by zero", st)
            ELSE LET m == Abs(vals[1].n) \div Abs(vals[2].n)
                 IN  Ok(Num(IF (vals[1].n < 0) = (vals[2].n < 0) THEN m ELSE 0 - m), st))

(* val0 % val1 of the host: the result has the sign of val1.               *)
host_mod(val0, val1) ==
    IF val1 > 0 THEN val0 % val1 ELSE 0 - ((0 - val0) % (0 - val1))

scheme_modulo(vals, st) ==
    IF Len(vals) # 2 THEN Raise("TypeError", "wrong number of arguments", st)
    ELSE IF check_nums(vals) # "" THEN Raise("SchemeError", check_nums(vals), st)
    ELSE CatchZeroDivision(
            IF vals[2].n = 0
            THEN Raise("ZeroDivisionError", "integer modulo by zero", st)
            ELSE Ok(Num(host_mod(vals[1].n, vals[2].n)), st))

(* The while loop of scheme_remainder.                                     *)
RECURSIVE remainder_loop(_, _, _)
remainder_loop(result, val0, val1) ==
    IF (result < 0 /\ val0 > 0) \/ (result > 0 /\ val0 < 0)
    THEN remainder_loop(result - val1, val0, val1)
    ELSE result

scheme_remainder(vals, st) ==
    IF Len(vals) # 2 THEN Raise("TypeError", "wrong number of arguments", st)
    ELSE IF check_nums(vals) # "" THEN Raise("SchemeError", check_nums(vals), st)
    ELSE IF vals[2].n = 0
    THEN CatchZeroDivision(Raise("ZeroDivisionError", "integer modulo by zero", st))
    ELSE Ok(Num(remainder_loop(host_mod(vals[1].n, vals[2].n), vals[1].n, vals[2].n)),
            st)

scheme_eq(vals, st) ==
    IF Len(vals) # 2 THEN Raise("TypeError", "wrong number of arguments", st)
    ELSE IF check_nums(vals) # "" THEN Raise("SchemeError", check_nums(vals), st)
    ELSE Ok(Bool(vals[1].n = vals[2].n), st)

scheme_not(vals, st) ==
    IF Len(vals) # 1 THEN Raise("TypeError", "wrong number of arguments", st)
    ELSE Ok(Bool(~scheme_true(vals[1])), st)

(* x == y of the host.  int, float and bool compare by numeric value, True *)
(* being 1 and False 0; two str compare by their characters, and the str   *)
(* of a string literal starts with its quotation mark, which no symbol     *)
(* does; nil, okay and a primitive procedure are equal only to themselves. *)
host_numeric(x) == x.t \in {"num", "float", "bool"}

numerator(x) ==
    CASE x.t = "num" -> x.n
      [] x.t = "float" -> x.p
      [] x.t = "bool" -> IF x.b THEN 1 ELSE 0

denominator(x) == IF x.t = "float" THEN x.q ELSE 1

host_eq(x, y) ==
    IF host_numeric(x) /\ host_numeric(y)
    THEN numerator(x) * denominator(y) = numerator(y) * denominator(x)
    ELSE x = y

scheme_eqp(vals, st) ==
    IF Len(vals) # 2 THEN Raise("TypeError", "wrong number of arguments", st)
    ELSE Ok(Bool(host_eq(vals[1], vals[2])), st)

RECURSIVE scheme_eval(_, _, _, _, _)
RECURSIVE scheme_apply(_, _, _, _, _)

(* The host call made for the primitive eval, whose function is            *)
(* scheme_optimized_eval(expr, env, tail=False), on args: args are the     *)
(* argument values followed by the current frame.  With two argument       *)
(* values the second becomes env, a value that is no Frame, and the        *)
(* current frame becomes tail, which counts as true.                       *)
eval_fn(args, st, d) ==
    IF Len(args) = 2 THEN scheme_eval(args[1], args[2], FALSE, st, d)
    ELSE IF Len(args) = 3 THEN scheme_eval(args[1], NotAFrame, TRUE, st, d)
    ELSE Raise("TypeError", "wrong number of arguments", st)

(* The host call made for the primitive apply, whose function is           *)
(* scheme_apply(procedure, args, env), on args.                            *)
apply_fn(args, st, d) ==
    IF Len(args) = 3 THEN scheme_apply(args[1], args[2], args[3], st, d)
    ELSE Raise("TypeError", "wrong number of arguments", st)

(* The host function procedure.fn applied to args, for the primitives of   *)
(* the model.                                                              *)
primitive_fn(name, args, st, d) ==
    CASE name = "+" -> scheme_add(args, st)
      [] name = "-" -> scheme_sub(args, st)
      [] name = "*" -> scheme_mul(args, st)
      [] name = "=" -> scheme_eq(args, st)
      [] name = "not" -> scheme_not(args, st)
      [] name \in {"eq?", "equal?"} -> scheme_eqp(args, st)
      [] name = "/" -> scheme_div(args, st)
      [] name = "expt" -> scheme_expt(args, st)
      [] name = "quotient" -> scheme_quo(args, st)
      [] name = "modulo" -> scheme_modulo(args, st)
      [] name = "remainder" -> scheme_remainder(args, st)
      [] name = "eval" -> eval_fn(args, st, d)
      [] name = "apply" -> apply_fn(args, st, d)

(* list(x) of the host: the elements of a proper Scheme list, the          *)
(* characters of a str; it raises TypeError for an improper list and for a *)
(* value that cannot be iterated.                                          *)
host_iterable(x) == scheme_listp(x) \/ x.t \in {"sym", "str"}

host_list(x) ==
    IF scheme_listp(x) THEN py_list(x)
    ELSE [k \in 1..Len(x.s) |-> [t |-> x.t, s |-> SubSeq(x.s, k, k)]]

(* apply_primitive: the argument values, then env when use_env is set; a   *)
(* TypeError of the host call becomes a SchemeError.                       *)
apply_primitive(procedure, args_scheme_list, env, st, d) ==
    IF ~host_iterable(args_scheme_list)
    THEN Raise("TypeError", "object is not iterable", st)
    ELSE LET args == IF procedure.use_env
                     THEN Append(host_list(args_scheme_list), env)
                     ELSE host_list(args_scheme_list)
             r == primitive_fn(procedure.name, args, st, d)
         IN  IF r.k = "err" /\ r.exc = "TypeError"
             THEN Raise("SchemeError", "", r.st)
             ELSE r

(* create_global_frame, with the primitives the model uses.                *)
PRIMITIVES ==
    {"+", "-", "*", "/", "expt", "quotient", "modulo", "remainder", "=", "not",
     "eq?", "equal?"}
USE_ENV == {"eval", "apply"}

create_global_frame ==
    [bindings |-> [name \in PRIMITIVES \cup USE_ENV |->
                      PrimitiveProcedure(name, name \in USE_ENV)],
     parent |-> 0]

-----------------------------------------------------------------------------
(* Eval/Apply.  The parameter d of an operator is the number of            *)
(* scheme_eval activations on the host stack when it is called; st.maxd is *)
(* the largest number of simultaneously active ones so far.                *)

SPECIAL_FORMS ==
    {"and", "begin", "cond", "define", "if", "lambda", "let", "or", "quote", "mu"}

Enter(st, d) == [st EXCEPT !.maxd = IF d > @ THEN d ELSE @]

(* st.log is the history of the run: one entry for every call of           *)
(* scheme_eval (the expression, the frame and the tail flag) and one for   *)
(* every call of scheme_apply (the procedure and the argument list), in    *)
(* call order.                                                             *)
EvalCalled(st, expr, env, tail) ==
    [st EXCEPT !.log = Append(@, [e |-> "eval", expr |-> expr, env |-> env,
                                  tail |-> tail])]

ApplyCalled(st, procedure, args) ==
    [st EXCEPT !.log = Append(@, [e |-> "apply", procedure |-> procedure, args |-> args])]

RECURSIVE eval_loop(_, _)
RECURSIVE eval_loop_operands_first(_, _)
RECURSIVE map_eval(_, _, _, _)
RECURSIVE map_eval_tail(_, _, _, _)
RECURSIVE eval_all(_, _, _, _)
RECURSIVE eval_all_loop(_, _, _, _, _, _)
RECURSIVE eval_all_loop_nontail(_, _, _, _, _, _)
RECURSIVE do_form(_, _, _, _, _)
RECURSIVE do_define_form(_, _, _, _)
RECURSIVE do_define_form_assign(_, _, _, _)
RECURSIVE do_define_form_declare(_, _, _, _)
RECURSIVE do_begin_form(_, _, _, _)
RECURSIVE do_if_form(_, _, _, _)
RECURSIVE do_and_form(_, _, _, _)
RECURSIVE and_loop(_, _, _, _, _, _)
RECURSIVE and_loop_truthy(_, _, _, _, _, _)
RECURSIVE do_or_form(_, _, _, _)
RECURSIVE or_loop(_, _, _, _, _, _)
RECURSIVE or_loop_truthy(_, _, _, _, _, _)
RECURSIVE do_cond_form(_, _, _, _)
RECURSIVE cond_loop(_, _, _, _, _, _)
RECURSIVE cond_loop_true(_, _, _, _, _, _)
RECURSIVE do_let_form(_, _, _, _)
RECURSIVE make_let_frame(_, _, _, _)
RECURSIVE let_loop(_, _, _, _, _, _)
RECURSIVE let_loop_sequential(_, _, _, _, _, _)

(* make_call_frame as it would be if every procedure's frame were a child  *)
(* of the caller's frame.                                                  *)
make_call_frame_caller(procedure, args, env, st) ==
    make_child_frame(env, procedure.formals, args, st)

(* make_call_frame: a child of the procedure's own frame for a lambda, of  *)
(* the caller's frame for a mu.                                            *)
make_call_frame(procedure, args, env, st) ==
    IF procedure.t = "lambda"
    THEN make_child_frame(procedure.env, procedure.formals, args, st)
    ELSE make_child_frame(env, procedure.formals, args, st)

scheme_apply(procedure, args, env, st0, d) ==
    LET st == ApplyCalled(st0, procedure, args)
    IN  IF procedure.t = "prim" THEN apply_primitive(procedure, args, env, st, d)
        ELSE IF procedure.t \in {"lambda", "mu"}
        THEN LET new_env == make_call_frame(procedure, args, env, st)
             IN  IF new_env.k = "err" THEN new_env
                 ELSE eval_all(procedure.body, new_env.v, new_env.st, d)
        ELSE Raise("SchemeError", "cannot call", st)

eval_all(expressions, env, st, d) ==
    IF expressions.t = "nil" THEN Ok(okay, st)
    ELSE IF py_len(expressions) = TypeErr
    THEN Raise("TypeError", "length attempted on improper list", st)
    ELSE eval_all_loop(expressions, 0, py_len(expressions), env, st, d)

(* eval_all as it would be if the last expression were evaluated by a      *)
(* plain, non-tail call of scheme_eval.                                    *)
eval_all_loop_nontail(expressions, x, n, env, st, d) ==
    IF x < n - 1
    THEN LET r == scheme_eval(py_getitem(expressions, x), env, FALSE, st, d)
         IN  IF r.k = "err" THEN r
             ELSE eval_all_loop_nontail(expressions, x + 1, n, env, r.st, d)
    ELSE scheme_eval(py_getitem(expressions, n - 1), env, FALSE, st, d)

eval_all_loop(expressions, x, n, env, st, d) ==
    IF x < n - 1
    THEN LET r == scheme_eval(py_getitem(expressions, x), env, FALSE, st, d)
         IN  IF r.k = "err" THEN r
             ELSE eval_all_loop(expressions, x + 1, n, env, r.st, d)
    ELSE scheme_eval(py_getitem(expressions, n - 1), env, TRUE, st, d)

(* rest.map as it would be if the operands were evaluated with the tail    *)
(* flag set.                                                               *)
map_eval_tail(lst, env, st, d) ==
    IF lst.t = "nil" THEN Ok(nil, st)
    ELSE LET mapped == scheme_eval(lst.first, env, TRUE, st, d)
         IN  IF mapped.k = "err" THEN mapped
             ELSE IF lst.second.t \notin {"nil", "pair"}
             THEN Raise("TypeError", "ill-formed list", mapped.st)
             ELSE LET more == map_eval_tail(lst.second, env, mapped.st, d)
                  IN  IF more.k = "err" THEN more
                      ELSE Ok(Pair(mapped.v, more.v), more.st)

(* rest.map(lambda operand: scheme_eval(operand, env)) (Pair.map, nil.map) *)
map_eval(lst, env, st, d) ==
    IF lst.t = "nil" THEN Ok(nil, st)
    ELSE LET mapped == scheme_eval(lst.first, env, FALSE, st, d)
         IN  IF mapped.k = "err" THEN mapped
             ELSE IF lst.second.t \notin {"nil", "pair"}
             THEN Raise("TypeError", "ill-formed list", mapped.st)
             ELSE LET more == map_eval(lst.second, env, mapped.st, d)
                  IN  IF more.k = "err" THEN more
                      ELSE Ok(Pair(mapped.v, more.v), more.st)

(* History kept for the claims about markers: st.escaped is set when a     *)
(* call of scheme_eval without the tail flag returns an Evaluate marker    *)
(* from one of its two return statements ahead of the while loop; the loop *)
(* itself ends only on a result that is no marker.                         *)
Returned(r, tail) ==
    IF ~tail /\ r.k = "ok" /\ r.v.t = "evaluate"
    THEN [r EXCEPT !.st.escaped = TRUE]
    ELSE r

(* scheme_optimized_eval (bound to the name scheme_eval): an activation at *)
(* host depth d + 1.  Exceeding the host's recursion limit raises          *)
(* RuntimeError.                                                           *)
scheme_eval(expr, env, tail, st0, d) ==
    LET st == Enter(EvalCalled(st0, expr, env, tail), d + 1)
    IN  IF d + 1 > MaxHostDepth
        THEN Raise("RuntimeError", "maximum recursion depth exceeded", st0)
        ELSE IF scheme_symbolp(expr) THEN Returned(Frame_lookup(env, expr.s, st), tail)
        ELSE IF self_evaluating(expr) THEN Returned(Ok(expr, st), tail)
        ELSE IF tail THEN Ok(Evaluate(expr, env), st)
        ELSE eval_loop(Ok(Evaluate(expr, env), st), d + 1)

(* The while loop of scheme_optimized_eval as it would be if the operands  *)
(* of a combination were evaluated before its head.                        *)
eval_loop_operands_first(result, d) ==
    IF result.k = "err" THEN result
    ELSE IF result.v.t # "evaluate" THEN result
    ELSE LET expr == result.v.expr
             env == result.v.env
             st == result.st
         IN  IF ~scheme_listp(expr) THEN Raise("SchemeError", "malformed list", st)
             ELSE IF scheme_symbolp(expr.first) /\ expr.first.s \in SPECIAL_FORMS
             THEN eval_loop_operands_first(
                     do_form(expr.first.s, expr.second, env, st, d), d)
             ELSE LET args == map_eval(expr.second, env, st, d)
                  IN  IF args.k = "err" THEN args
                      ELSE LET procedure == scheme_eval(expr.first, env, FALSE, args.st, d)
                           IN  IF procedure.k = "err" THEN procedure
                               ELSE eval_loop_operands_first(
                                      scheme_apply(procedure.v, args.v, env,
                                                   procedure.st, d),
                                      d)

(* The while loop of scheme_optimized_eval, run by the activation at host  *)
(* depth d.                                                                *)
eval_loop(result, d) ==
    IF result.k = "err" THEN result
    ELSE IF result.v.t # "evaluate" THEN result
    ELSE LET expr == result.v.expr
             env == result.v.env
             st == result.st
         IN  IF ~scheme_listp(expr) THEN Raise("SchemeError", "malformed list", st)
             ELSE IF scheme_symbolp(expr.first) /\ expr.first.s \in SPECIAL_FORMS
             THEN eval_loop(do_form(expr.first.s, expr.second, env, st, d), d)
             ELSE LET procedure == scheme_eval(expr.first, env, FALSE, st, d)
                  IN  IF procedure.k = "err" THEN procedure
                      ELSE LET args == map_eval(expr.second, env, procedure.st, d)
                           IN  IF args.k = "err" THEN args
                               ELSE eval_loop(
                                      scheme_apply(procedure.v, args.v, env, args.st, d),
                                      d)

-----------------------------------------------------------------------------
(* Special forms.  expressions is the operand list of the form, env the    *)
(* frame it is evaluated in, d the host depth of the scheme_eval           *)
(* activation that dispatched it.                                          *)

do_quote_form(expressions, env, st) ==
    IF check_form(expressions, 1, 1) # ""
    THEN Raise("SchemeError", check_form(expressions, 1, 1), st)
    ELSE Ok(expressions.first, st)

(* do_lambda_form as it would be if the procedure held only the last body  *)
(* expression.                                                             *)
do_lambda_form_last(expressions, env, st) ==
    IF check_form(expressions, 2, Inf) # ""
    THEN Raise("SchemeError", check_form(expressions, 2, Inf), st)
    ELSE IF check_formals(expressions.first) # ""
    THEN Raise("SchemeError", check_formals(expressions.first), st)
    ELSE Ok(LambdaProcedure(expressions.first,
                            SchemeList(<<py_getitem(expressions,
                                                    py_len(expressions) - 1)>>),
                            env), st)

do_lambda_form(expressions, env, st) ==
    IF check_form(expressions, 2, Inf) # ""
    THEN Raise("SchemeError", check_form(expressions, 2, Inf), st)
    ELSE IF check_formals(expressions.first) # ""
    THEN Raise("SchemeError", check_formals(expressions.first), st)
    ELSE Ok(LambdaProcedure(expressions.first, expressions.second, env), st)

(* do_mu_form as it would be if it closed over the frame of the            *)
(* definition as do_lambda_form does.                                      *)
do_mu_form_closure(expressions, env, st) ==
    IF check_form(expressions, 2, Inf) # ""
    THEN Raise("SchemeError", check_form(expressions, 2, Inf), st)
    ELSE IF check_formals(py_getitem(expressions, 0)) # ""
    THEN Raise("SchemeError", check_formals(py_getitem(expressions, 0)), st)
    ELSE Ok(LambdaProcedure(py_getitem(expressions, 0), expressions.second, env), st)

do_mu_form(expressions, env, st) ==
    IF check_form(expressions, 2, Inf) # ""
    THEN Raise("SchemeError", check_form(expressions, 2, Inf), st)
    ELSE IF check_formals(py_getitem(expressions, 0)) # ""
    THEN Raise("SchemeError", check_formals(py_getitem(expressions, 0)), st)
    ELSE Ok(MuProcedure(py_getitem(expressions, 0), expressions.second), st)

(* The frame of the chain of env in which an assignment to symbol would    *)
(* land if it updated the nearest existing binding.                        *)
RECURSIVE binding_frame(_, _, _, _)
binding_frame(fs, self, symbol, env) ==
    IF symbol \in DOMAIN fs[self].bindings THEN self
    ELSE IF fs[self].parent # 0 THEN binding_frame(fs, fs[self].parent, symbol, env)
    ELSE env

(* do_define_form as it would be if a define of an already visible symbol  *)
(* updated the frame that binds it.                                        *)
do_define_form_assign(expressions, env, st, d) ==
    IF check_form(expressions, 2, Inf) # ""
    THEN Raise("SchemeError", check_form(expressions, 2, Inf), st)
    ELSE LET target == py_getitem(expressions, 0)
         IN  IF scheme_symbolp(target)
             THEN IF check_form(expressions, 2, 2) # ""
                  THEN Raise("SchemeError", check_form(expressions, 2, 2), st)
                  ELSE LET r == scheme_eval(py_getitem(expressions, 1), env, FALSE, st, d)
                       IN  IF r.k = "err" THEN r
                           ELSE Ok(target,
                                   [r.st EXCEPT !.frames =
                                       Frame_define(@,
                                           binding_frame(r.st.frames, env, target.s, env),
                                           target.s, r.v)])
             ELSE IF target.t = "pair" /\ scheme_symbolp(target.first)
             THEN LET vals == Pair(target.second, expressions.second)
                      r == do_lambda_form(vals, env, st)
                  IN  IF r.k = "err" THEN r
                      ELSE Ok(target.first,
                              [r.st EXCEPT !.frames =
                                  Frame_define(@, env, target.first.s, r.v)])
             ELSE Raise("SchemeError", "Non-symbol", st)

(* do_define_form as it would be if a define of a symbol bound the symbol  *)
(* to okay before evaluating the expression.                               *)
do_define_form_declare(expressions, env, st, d) ==
    IF check_form(expressions, 2, Inf) # ""
    THEN Raise("SchemeError", check_form(expressions, 2, Inf), st)
    ELSE LET target == py_getitem(expressions, 0)
         IN  IF scheme_symbolp(target) /\ env # NotAFrame
             THEN LET declared == [st EXCEPT !.frames =
                                      Frame_define(@, env, target.s, okay)]
                  IN  IF check_form(expressions, 2, 2) # ""
                      THEN Raise("SchemeError", check_form(expressions, 2, 2), declared)
                      ELSE LET r == scheme_eval(py_getitem(expressions, 1), env, FALSE,
                                                declared, d)
                           IN  IF r.k = "err" THEN r
                               ELSE Ok(target,
                                       [r.st EXCEPT !.frames =
                                           Frame_define(@, env, target.s, r.v)])
             ELSE IF target.t = "pair" /\ scheme_symbolp(target.first)
             THEN LET vals == Pair(target.second, expressions.second)
                      r == do_lambda_form(vals, env, st)
                  IN  IF r.k = "err" THEN r
                      ELSE Ok(target.first,
                              [r.st EXCEPT !.frames =
                                  Frame_define(@, env, target.first.s, r.v)])
             ELSE Raise("SchemeError", "Non-symbol", st)

do_define_form(expressions, env, st, d) ==
    IF check_form(expressions, 2, Inf) # ""
    THEN Raise("SchemeError", check_form(expressions, 2, Inf), st)
    ELSE LET target == py_getitem(expressions, 0)
         IN  IF scheme_symbolp(target)
             THEN IF check_form(expressions, 2, 2) # ""
                  THEN Raise("SchemeError", check_form(expressions, 2, 2), st)
                  ELSE LET r == scheme_eval(py_getitem(expressions, 1), env, FALSE, st, d)
                       IN  IF r.k = "err" THEN r
                           ELSE IF env = NotAFrame
                           THEN Raise("AttributeError",
                                      "object has no attribute 'define'", r.st)
                           ELSE Ok(target,
                                   [r.st EXCEPT !.frames =
                                       Frame_define(@, env, target.s, r.v)])
             ELSE IF target.t = "pair" /\ scheme_symbolp(target.first)
             THEN LET vals == Pair(target.second, expressions.second)
                      r == do_lambda_form(vals, env, st)
                  IN  IF r.k = "err" THEN r
                      ELSE IF env = NotAFrame
                      THEN Raise("AttributeError",
                                 "object has no attribute 'define'", r.st)
                      ELSE Ok(target.first,
                              [r.st EXCEPT !.frames =
                                  Frame_define(@, env, target.first.s, r.v)])
             ELSE Raise("SchemeError", "Non-symbol", st)

do_begin_form(expressions, env, st, d) ==
    IF check_form(expressions, 1, Inf) # ""
    THEN Raise("SchemeError", check_form(expressions, 1, Inf), st)
    ELSE eval_all(expressions, env, st, d)

(* The host's own truth value of a Scheme value: False, 0, the empty list  *)
(* and the empty string are false.                                         *)
host_truthy(val) ==
    ~(\/ val.t = "bool" /\ val.b = FALSE
      \/ val.t = "num" /\ val.n = 0
      \/ val.t = "nil"
      \/ val.t \in {"sym", "str"} /\ Len(val.s) = 0)

(* do_if_form as it would be if the condition were tested by the host's    *)
(* truth value and not by scheme_true.                                     *)
do_if_form_truthy(expressions, env, st, d) ==
    IF check_form(expressions, 2, 3) # ""
    THEN Raise("SchemeError", check_form(expressions, 2, 3), st)
    ELSE LET c == scheme_eval(py_getitem(expressions, 0), env, FALSE, st, d)
         IN  IF c.k = "err" THEN c
             ELSE IF host_truthy(c.v)
             THEN scheme_eval(py_getitem(expressions, 1), env, TRUE, c.st, d)
             ELSE IF py_len(expressions) = 2 THEN Ok(okay, c.st)
             ELSE scheme_eval(py_getitem(expressions, 2), env, TRUE, c.st, d)

do_if_form(expressions, env, st, d) ==
    IF check_form(expressions, 2, 3) # ""
    THEN Raise("SchemeError", check_form(expressions, 2, 3), st)
    ELSE LET c == scheme_eval(py_getitem(expressions, 0), env, FALSE, st, d)
         IN  IF c.k = "err" THEN c
             ELSE IF scheme_true(c.v)
             THEN scheme_eval(py_getitem(expressions, 1), env, TRUE, c.st, d)
             ELSE IF py_len(expressions) = 2 THEN Ok(okay, c.st)
             ELSE scheme_eval(py_getitem(expressions, 2), env, TRUE, c.st, d)

do_and_form(expressions, env, st, d) ==
    IF py_len(expressions) = TypeErr
    THEN Raise("TypeError", "length attempted on improper list", st)
    ELSE IF py_len(expressions) = 0 THEN Ok(Bool(TRUE), st)
    ELSE and_loop(expressions, 0, py_len(expressions), env, st, d)

(* The loop of do_and_form as it would be if a term were tested by the     *)
(* host's truth value.                                                     *)
and_loop_truthy(expressions, x, n, env, st, d) ==
    IF x < n - 1
    THEN LET term == scheme_eval(py_getitem(expressions, x), env, FALSE, st, d)
         IN  IF term.k = "err" THEN term
             ELSE IF ~host_truthy(term.v) THEN Ok(Bool(FALSE), term.st)
             ELSE and_loop_truthy(expressions, x + 1, n, env, term.st, d)
    ELSE scheme_eval(py_getitem(expressions, n - 1), env, TRUE, st, d)

and_loop(expressions, x, n, env, st, d) ==
    IF x < n - 1
    THEN LET term == scheme_eval(py_getitem(expressions, x), env, FALSE, st, d)
         IN  IF term.k = "err" THEN term
             ELSE IF ~scheme_true(term.v) THEN Ok(Bool(FALSE), term.st)
             ELSE and_loop(expressions, x + 1, n, env, term.st, d)
    ELSE scheme_eval(py_getitem(expressions, n - 1), env, TRUE, st, d)

do_or_form(expressions, env, st, d) ==
    IF py_len(expressions) = TypeErr
    THEN Raise("TypeError", "length attempted on improper list", st)
    ELSE IF py_len(expressions) = 0 THEN Ok(Bool(FALSE), st)
    ELSE or_loop(expressions, 0, py_len(expressions), env, st, d)

(* The loop of do_or_form as it would be if a term were tested by the      *)
(* host's truth value.                                                     *)
or_loop_truthy(expressions, x, n, env, st, d) ==
    IF x < n - 1
    THEN LET term == scheme_eval(py_getitem(expressions, x), env, FALSE, st, d)
         IN  IF term.k = "err" THEN term
             ELSE IF host_truthy(term.v) THEN term
             ELSE or_loop_truthy(expressions, x + 1, n, env, term.st, d)
    ELSE scheme_eval(py_getitem(expressions, n - 1), env, TRUE, st, d)

or_loop(expressions, x, n, env, st, d) ==
    IF x < n - 1
    THEN LET term == scheme_eval(py_getitem(expressions, x), env, FALSE, st, d)
         IN  IF term.k = "err" THEN term
             ELSE IF scheme_true(term.v) THEN term
             ELSE or_loop(expressions, x + 1, n, env, term.st, d)
    ELSE scheme_eval(py_getitem(expressions, n - 1), env, TRUE, st, d)

do_cond_form(expressions, env, st, d) ==
    IF py_len(expressions) = TypeErr
    THEN Raise("TypeError", "length attempted on improper list", st)
    ELSE cond_loop(expressions, 0, py_len(expressions), env, st, d)

(* The loop of do_cond_form as it would be if a clause with an empty body  *)
(* returned True instead of the value of its test.                         *)
cond_loop_true(expressions, i, num_clauses, env, st, d) ==
    IF i = num_clauses THEN Ok(okay, st)
    ELSE LET clause == py_getitem(expressions, i)
         IN  IF ~IsItem(clause) THEN Raise(clause.t, "", st)
             ELSE IF check_form(clause, 1, Inf) # ""
             THEN Raise("SchemeError", check_form(clause, 1, Inf), st)
             ELSE IF clause.first = Sym("else") /\ i < num_clauses - 1
             THEN Raise("SchemeError", "else must be last", st)
             ELSE IF clause.first = Sym("else") /\ clause.second.t = "nil"
             THEN Raise("SchemeError", "badly formed else clause", st)
             ELSE LET test == IF clause.first = Sym("else") THEN Ok(Bool(TRUE), st)
                              ELSE scheme_eval(clause.first, env, FALSE, st, d)
                  IN  IF test.k = "err" THEN test
                      ELSE IF scheme_true(test.v)
                      THEN IF py_len(clause.second) > 1
                           THEN eval_all(clause.second, env, test.st, d)
                           ELSE IF py_len(clause.second) = 0
                           THEN Ok(Bool(TRUE), test.st)
                           ELSE scheme_eval(py_getitem(clause, 1), env, TRUE, test.st, d)
                      ELSE cond_loop_true(expressions, i + 1, num_clauses, env, test.st, d)

(* The for loop of do_cond_form over i, clause in enumerate(expressions).  *)
cond_loop(expressions, i, num_clauses, env, st, d) ==
    IF i = num_clauses THEN Ok(okay, st)
    ELSE LET clause == py_getitem(expressions, i)
         IN  IF ~IsItem(clause) THEN Raise(clause.t, "", st)
             ELSE IF check_form(clause, 1, Inf) # ""
             THEN Raise("SchemeError", check_form(clause, 1, Inf), st)
             ELSE IF clause.first = Sym("else") /\ i < num_clauses - 1
             THEN Raise("SchemeError", "else must be last", st)
             ELSE IF clause.first = Sym("else") /\ clause.second.t = "nil"
             THEN Raise("SchemeError", "badly formed else clause", st)
             ELSE LET test == IF clause.first = Sym("else") THEN Ok(Bool(TRUE), st)
                              ELSE scheme_eval(clause.first, env, FALSE, st, d)
                  IN  IF test.k = "err" THEN test
                      ELSE IF scheme_true(test.v)
                      THEN IF py_len(clause.second) > 1
                           THEN eval_all(clause.second, env, test.st, d)
                           ELSE IF py_len(clause.second) = 0 THEN test
                           ELSE scheme_eval(py_getitem(clause, 1), env, TRUE, test.st, d)
                      ELSE cond_loop(expressions, i + 1, num_clauses, env, test.st, d)

do_let_form(expressions, env, st, d) ==
    IF check_form(expressions, 2, Inf) # ""
    THEN Raise("SchemeError", check_form(expressions, 2, Inf), st)
    ELSE LET let_env == make_let_frame(expressions.first, env, st, d)
         IN  IF let_env.k = "err" THEN let_env
             ELSE eval_all(expressions.second, let_env.v, let_env.st, d)

make_let_frame(bindings, env, st, d) ==
    IF ~scheme_listp(bindings)
    THEN Raise("SchemeError", "bad bindings list in let form", st)
    ELSE LET let_env == make_child_frame(env, nil, nil, st)
         IN  let_loop(bindings, 0, let_env.v, env, let_env.st, d)

(* The for loop of make_let_frame over bind in bindings: iteration ends at *)
(* the IndexError of bindings[i].                                          *)
(* The loop of make_let_frame as it would be if each initialising          *)
(* expression were evaluated in the frame of the let (the let* of Scheme). *)
let_loop_sequential(bindings, i, let_env, env, st, d) ==
    LET bind == py_getitem(bindings, i)
    IN  IF ~IsItem(bind) THEN Ok(let_env, st)
        ELSE IF py_len(bind) = TypeErr
        THEN Raise("TypeError", "object has no len()", st)
        ELSE IF py_len(bind) # 2 THEN Raise("SchemeError", "bad definition", st)
        ELSE IF check_formals(Pair(py_getitem(bind, 0), nil)) # ""
        THEN Raise("SchemeError", check_formals(Pair(py_getitem(bind, 0), nil)), st)
        ELSE LET r == scheme_eval(py_getitem(bind, 1), let_env, FALSE, st, d)
             IN  IF r.k = "err" THEN r
                 ELSE let_loop_sequential(bindings, i + 1, let_env, env,
                               [r.st EXCEPT !.frames =
                                   Frame_define(@, let_env, py_getitem(bind, 0).s, r.v)],
                               d)

let_loop(bindings, i, let_env, env, st, d) ==
    LET bind == py_getitem(bindings, i)
    IN  IF ~IsItem(bind) THEN Ok(let_env, st)
        ELSE IF py_len(bind) = TypeErr
        THEN Raise("TypeError", "object has no len()", st)
        ELSE IF py_len(bind) # 2 THEN Raise("SchemeError", "bad definition", st)
        ELSE IF check_formals(Pair(py_getitem(bind, 0), nil)) # ""
        THEN Raise("SchemeError", check_formals(Pair(py_getitem(bind, 0), nil)), st)
        ELSE LET r == scheme_eval(py_getitem(bind, 1), env, FALSE, st, d)
             IN  IF r.k = "err" THEN r
                 ELSE let_loop(bindings, i + 1, let_env, env,
                               [r.st EXCEPT !.frames =
                                   Frame_define(@, let_env, py_getitem(bind, 0).s, r.v)],
                               d)

(* SPECIAL_FORMS[first](rest, env)                                         *)
do_form(first, rest, env, st, d) ==
    CASE first = "and" -> do_and_form(rest, env, st, d)
      [] first = "begin" -> do_begin_form(rest, env, st, d)
      [] first = "cond" -> do_cond_form(rest, env, st, d)
      [] first = "define" -> do_define_form(rest, env, st, d)
      [] first = "if" -> do_if_form(rest, env, st, d)
      [] first = "lambda" -> do_lambda_form(rest, env, st)
      [] first = "let" -> do_let_form(rest, env, st, d)
      [] first = "or" -> do_or_form(rest, env, st, d)
      [] first = "quote" -> do_quote_form(rest, env, st)
      [] first = "mu" -> do_mu_form(rest, env, st)

-----------------------------------------------------------------------------
(* The state machine.  Each action is one call of an entry point of the    *)
(* interpreter on the current heap; last records the call, the heap before *)
(* it and its outcome.                                                     *)

S(s) == Sym(s)
N(n) == Num(n)
L(seq) == SchemeList(seq)

(* What the caller of an entry point observes: the value, or the exception *)
Res(r) ==
    IF r.k = "ok" THEN [k |-> "ok", v |-> r.v]
    ELSE [k |-> "err", exc |-> r.exc, msg |-> r.msg]

(* The interpreter state of a run that starts on the heap fs.              *)
StateOf(fs) == [frames |-> fs, maxd |-> 0, log |-> <<>>, escaped |-> FALSE]

State0 == StateOf(frames)

Init ==
    /\ frames = <<create_global_frame>>
    /\ last = [op |-> "init"]
    /\ steps = 0
    /\ repl = [pc |-> "off"]
    /\ colony = [pc |-> "off"]
    /\ hog = [pc |-> "off"]

(* env.lookup(symbol) on a frame of the heap.                              *)
Lookup(env, symbol) ==
    LET r == Frame_lookup(env, symbol, State0)
    IN  /\ frames' = r.st.frames
        /\ last' = [op |-> "lookup", env |-> env, symbol |-> symbol,
                    pre |-> frames, res |-> Res(r)]
        /\ steps' = steps + 1
        /\ UNCHANGED <<repl, colony, hog>>

(* env.define(symbol, value) on a frame of the heap.                       *)
Define(env, symbol, value) ==
    /\ frames' = Frame_define(frames, env, symbol, value)
    /\ last' = [op |-> "define", env |-> env, symbol |-> symbol, value |-> value,
                pre |-> frames]
    /\ steps' = steps + 1
    /\ UNCHANGED <<repl, colony, hog>>

(* env.make_child_frame(formals, vals) on a frame of the heap.             *)
MakeChildFrame(env, formals, vals) ==
    LET r == make_child_frame(env, formals, vals, State0)
    IN  /\ frames' = r.st.frames
        /\ last' = [op |-> "make_child_frame", env |-> env, formals |-> formals,
                    vals |-> vals, pre |-> frames, res |-> Res(r)]
        /\ steps' = steps + 1
        /\ UNCHANGED <<repl, colony, hog>>

(* scheme_eval(expr, env) called from outside the evaluator, as the        *)
(* read-eval-print loop does with each expression it reads.                *)
SchemeEval(expr, env) ==
    LET r == scheme_eval(expr, env, FALSE, State0, 0)
    IN  /\ frames' = r.st.frames
        /\ last' = [op |-> "eval", expr |-> expr, env |-> env, pre |-> frames,
                    res |-> Res(r), maxd |-> r.st.maxd, log |-> r.st.log,
                    escaped |-> r.st.escaped]
        /\ steps' = steps + 1
        /\ UNCHANGED <<repl, colony, hog>>

-----------------------------------------------------------------------------
(* Spec: the environment model driven through its methods, and calls of    *)
(* lambda procedures with too few, too many and the right number of        *)
(* arguments.                                                              *)

ApiSymbols == {"x", "y"}
ApiFormals == {nil, L(<<S("x")>>), L(<<S("x"), S("y")>>)}
ApiVals == {nil, L(<<N(1)>>), L(<<N(2), N(1)>>)}
ApiPrograms ==
    { S("x"),
      L(<<L(<<S("lambda"), L(<<S("x"), S("y")>>), S("y")>>), N(1)>>),
      L(<<L(<<S("lambda"), L(<<S("x")>>), S("x")>>), N(1), N(2)>>),
      L(<<L(<<S("lambda"), L(<<S("x"), S("y")>>), S("y")>>), N(1), N(2)>>) }

ApiLookup ==
    /\ steps < MaxApiSteps
    /\ \E env \in 1..Len(frames), symbol \in ApiSymbols : Lookup(env, symbol)

ApiDefine ==
    /\ steps < MaxApiSteps
    /\ \E env \in 1..Len(frames), symbol \in ApiSymbols : Define(env, symbol, N(3))

ApiMakeChildFrame ==
    /\ steps < MaxApiSteps
    /\ \E env \in 1..Len(frames), formals \in ApiFormals, vals \in ApiVals :
          MakeChildFrame(env, formals, vals)

ApiEval ==
    /\ steps < MaxApiSteps
    /\ \E env \in 1..Len(frames), expr \in ApiPrograms : SchemeEval(expr, env)

Next == ApiLookup \/ ApiDefine \/ ApiMakeChildFrame \/ ApiEval

Spec == Init /\ [][Next]_vars

-----------------------------------------------------------------------------
(* Properties of the environment model.                                    *)

(* The frames from f up to the global frame, nearest first.                *)
RECURSIVE Chain(_, _)
Chain(fs, f) == IF f = 0 THEN <<>> ELSE <<f>> \o Chain(fs, fs[f].parent)

(* The positions on the chain of f of the frames that bind s.              *)
Binders(fs, f, s) ==
    {i \in 1..Len(Chain(fs, f)) : s \in DOMAIN fs[Chain(fs, f)[i]].bindings}

SetMin(A) == CHOOSE a \in A : \A b \in A : a <= b

(* What the claim says a lookup of s from f gives on the heap fs.          *)
Visible(fs, f, s) ==
    IF Binders(fs, f, s) = {}
    THEN [k |-> "err", exc |-> "SchemeError", msg |-> "unknown identifier"]
    ELSE [k |-> "ok", v |-> fs[Chain(fs, f)[SetMin(Binders(fs, f, s))]].bindings[s]]

IsLookup ==
    \/ last.op = "lookup"
    \/ last.op = "eval" /\ scheme_symbolp(last.expr)

LookupSymbol == IF last.op = "lookup" THEN last.symbol ELSE last.expr.s

(* C2: a lookup of s from a frame (by Frame.lookup, or by evaluating the   *)
(* symbol s) returns the value bound to s in the nearest frame of the      *)
(* chain up to the global frame that binds s, raises SchemeError 'unknown  *)
(* identifier' exactly when no frame of the chain binds s, and changes no  *)
(* frame.                                                                  *)
C2_LookupNearest ==
    IsLookup =>
        /\ last.res = Visible(last.pre, last.env, LookupSymbol)
        /\ frames = last.pre

(* A lookup that found an inner binding shadowing a different outer one.   *)
C2_Witness ==
    /\ last.op = "lookup"
    /\ last.res.k = "ok"
    /\ \E i \in Binders(last.pre, last.env, last.symbol) :
          /\ i > SetMin(Binders(last.pre, last.env, last.symbol))
          /\ last.pre[Chain(last.pre, last.env)[i]].bindings[last.symbol] # last.res.v

(* The position of symbol s in the sequence of symbols seq.                *)
IndexOf(seq, s) == CHOOSE i \in 1..Len(seq) : seq[i].s = s

(* The frame the claim says make_child_frame builds.                       *)
ChildFrame(parent, formals, vals) ==
    [bindings |-> [s \in {py_list(formals)[i].s : i \in 1..Len(py_list(formals))} |->
                      py_list(vals)[IndexOf(py_list(formals), s)]],
     parent |-> parent]

(* A call ((lambda formals body...) arg...) of a lambda expression.        *)
IsLambdaCall(expr) ==
    /\ expr.t = "pair"
    /\ expr.first.t = "pair"
    /\ expr.first.first = S("lambda")

(* C4: make_child_frame(formals, vals) appends a frame whose parent is the *)
(* receiver and whose bindings are exactly formals[i] -> vals[i] when the  *)
(* lists have the same length, raises SchemeError when they differ, and    *)
(* leaves every existing frame as it was; a lambda called with a number of *)
(* arguments other than its number of formals fails with SchemeError.      *)
C4_MakeChildFrame ==
    /\ last.op = "make_child_frame" =>
          /\ \A i \in 1..Len(last.pre) : frames[i] = last.pre[i]
          /\ IF Len(py_list(last.formals)) = Len(py_list(last.vals))
             THEN /\ last.res = [k |-> "ok", v |-> Len(last.pre) + 1]
                  /\ frames = Append(last.pre,
                                     ChildFrame(last.env, last.formals, last.vals))
             ELSE /\ last.res.k = "err"
                  /\ last.res.exc = "SchemeError"
    /\ (last.op = "eval" /\ IsLambdaCall(last.expr)) =>
          /\ \A i \in 1..Len(last.pre) : frames[i] = last.pre[i]
          /\ IF Len(py_list(py_getitem(last.expr.first, 1))) = Len(py_list(last.expr.second))
             THEN /\ last.res.k = "ok"
                  /\ frames[Len(frames)] =
                        ChildFrame(last.env, py_getitem(last.expr.first, 1),
                                   last.expr.second)
             ELSE /\ last.res.k = "err"
                  /\ last.res.exc = "SchemeError"

(* A lambda of two formals was called with one argument.                   *)
C4_Witness ==
    /\ last.op = "eval"
    /\ IsLambdaCall(last.expr)
    /\ Len(py_list(py_getitem(last.expr.first, 1))) = 2
    /\ Len(py_list(last.expr.second)) = 1
    /\ last.res.k = "err"

-----------------------------------------------------------------------------
(* SpecTail: procedures that call themselves, defined and then called with *)
(* 0..MaxIter iterations from the global frame.                            *)

Call(name, n) == L(<<S(name), N(n)>>)
IsZero == L(<<S("="), S("n"), N(0)>>)
Less1 == L(<<S("-"), S("n"), N(1)>>)
DefineProc(name, body) == L(<<S("define"), L(<<S(name), S("n")>>), body>>)

SelfCall(name) == L(<<S(name), Less1>>)

(* The self-call in the tail position of each form that has one.           *)
TailBody(name) ==
    CASE name = "loop_if" -> L(<<S("if"), IsZero, N(0), SelfCall(name)>>)
      [] name = "loop_cond" ->
            L(<<S("cond"), L(<<IsZero, N(0)>>), L(<<S("else"), SelfCall(name)>>)>>)
      [] name = "loop_and" -> L(<<S("and"), L(<<S("not"), IsZero>>), SelfCall(name)>>)
      [] name = "loop_or" -> L(<<S("or"), IsZero, SelfCall(name)>>)
      [] name = "loop_begin" ->
            L(<<S("begin"), N(7), L(<<S("if"), IsZero, N(0), SelfCall(name)>>)>>)
      [] name = "loop_let" ->
            L(<<S("let"), L(<<L(<<S("m"), Less1>>)>>),
                L(<<S("if"), IsZero, N(0), L(<<S(name), S("m")>>)>>)>>)


TailLoops == {"loop_if", "loop_cond", "loop_and", "loop_or", "loop_begin", "loop_let"}

(* (define (name n) body) for the lambda loops, a mu procedure with the    *)
(* body of loop_if, and a procedure whose self-call is not a tail call.    *)
TailDefinitions ==
    {DefineProc(name, TailBody(name)) : name \in TailLoops}
    \cup {L(<<S("define"), S("loop_mu"),
              L(<<S("mu"), L(<<S("n")>>),
                  L(<<S("if"), IsZero, N(0), SelfCall("loop_mu")>>)>>)>>),
          DefineProc("count",
                     L(<<S("if"), IsZero, N(0),
                         L(<<S("+"), N(1), SelfCall("count")>>)>>))}

TailDefine ==
    /\ steps < MaxSteps
    /\ \E expr \in TailDefinitions : SchemeEval(expr, 1)

TailCall ==
    /\ steps < MaxSteps
    /\ \E name \in TailLoops \cup {"loop_mu", "count"}, n \in 0..MaxIter :
          SchemeEval(Call(name, n), 1)

NextTail == TailDefine \/ TailCall

SpecTail == Init /\ [][NextTail]_vars

(* The largest number of simultaneously active scheme_eval activations     *)
(* while expr is evaluated in the global frame of the heap fs.             *)
HostDepth(expr, fs) ==
    scheme_eval(expr, 1, FALSE, StateOf(fs), 0).st.maxd

IsTailLoopCall ==
    /\ last.op = "eval"
    /\ last.res.k = "ok"
    /\ \E name \in TailLoops \cup {"loop_mu"}, n \in 1..MaxIter :
          last.expr = Call(name, n)

(* C1: a call of a procedure that calls itself in tail position (of if,    *)
(* cond, and, or, begin or let) runs with as many simultaneously active    *)
(* scheme_eval activations as its one-iteration call, whatever the number  *)
(* of iterations.                                                          *)
C1_TailCallDepth ==
    IsTailLoopCall =>
        last.maxd = HostDepth(Call(last.expr.first.s, 1), last.pre)

(* The let loop has run MaxIter iterations.                                *)
C1_Witness ==
    /\ IsTailLoopCall
    /\ last.expr = Call("loop_let", MaxIter)
    /\ Len(frames) >= Len(last.pre) + MaxIter

(* The host stack of the procedure whose self-call is no tail call grows   *)
(* with the number of iterations.                                          *)
NonTailDepthGrows ==
    (last.op = "eval" /\ last.res.k = "ok" /\ last.expr = Call("count", MaxIter))
        => last.maxd > HostDepth(Call("count", 1), last.pre)

-----------------------------------------------------------------------------
(* SpecDefine: define forms evaluated in the frames of a heap that grows   *)
(* by make_child_frame.                                                    *)

DefineForm(target, e) == L(<<S("define"), target, e>>)

DefinePrograms ==
    { DefineForm(S("x"), N(5)),
      DefineForm(S("x"), N(6)),
      DefineForm(S("y"), S("x")),
      DefineForm(S("y"), L(<<S("+"), S("x"), N(1)>>)),
      DefineForm(S("x"), L(<<S("begin"), DefineForm(S("y"), N(2)), N(7)>>)) }

DefMakeChildFrame ==
    /\ steps < MaxApiSteps
    /\ \E env \in 1..Len(frames), formals \in {nil, L(<<S("x")>>)} :
          MakeChildFrame(env, formals, IF formals = nil THEN nil ELSE L(<<N(1)>>))

DefEval ==
    /\ steps < MaxApiSteps
    /\ \E env \in 1..Len(frames), expr \in DefinePrograms : SchemeEval(expr, env)

NextDefine == DefMakeChildFrame \/ DefEval

SpecDefine == Init /\ [][NextDefine]_vars

(* (define s e) with s a symbol.                                           *)
IsDefineSymbol(expr) ==
    /\ expr.t = "pair"
    /\ expr.first = S("define")
    /\ py_len(expr.second) = 2
    /\ scheme_symbolp(py_getitem(expr.second, 0))

(* The outcome of evaluating expr alone in frame env of the heap fs.       *)
EvalIn(expr, env, fs) == scheme_eval(expr, env, FALSE, StateOf(fs), 0)

(* C3: (define s e) evaluated in frame F returns the symbol s and leaves   *)
(* the heap as the evaluation of e left it except that F binds s to the    *)
(* value of e: no other binding of F and no binding of any other frame     *)
(* (ancestors that bind s included) is changed by the define.              *)
C3_DefineInFrameOnly ==
    (last.op = "eval" /\ IsDefineSymbol(last.expr) /\ last.res.k = "ok") =>
        LET s == py_getitem(last.expr.second, 0).s
            e == EvalIn(py_getitem(last.expr.second, 1), last.env, last.pre)
            F == last.env
        IN  /\ e.k = "ok"
            /\ last.res.v = S(s)
            /\ Len(frames) = Len(e.st.frames)
            /\ \A i \in 1..Len(frames) : i # F => frames[i] = e.st.frames[i]
            /\ frames[F].parent = e.st.frames[F].parent
            /\ DOMAIN frames[F].bindings = DOMAIN e.st.frames[F].bindings \cup {s}
            /\ frames[F].bindings[s] = e.v
            /\ \A o \in DOMAIN e.st.frames[F].bindings :
                  o # s => frames[F].bindings[o] = e.st.frames[F].bindings[o]

(* A define in a child frame that overwrote the child's own binding of x   *)
(* while the global frame binds x too.                                     *)
C3_Witness ==
    /\ last.op = "eval"
    /\ IsDefineSymbol(last.expr)
    /\ last.res.k = "ok"
    /\ last.env # 1
    /\ py_getitem(last.expr.second, 0).s = "x"
    /\ "x" \in DOMAIN last.pre[last.env].bindings
    /\ "x" \in DOMAIN last.pre[1].bindings
    /\ last.pre[last.env].bindings["x"] # frames[last.env].bindings["x"]
    /\ last.pre[1].bindings["x"] # frames[last.env].bindings["x"]

-----------------------------------------------------------------------------
(* SpecScope: a lambda procedure f and a mu procedure g with the free      *)
(* variable x, defined and called in frames that bind x differently, and   *)
(* let forms.                                                              *)

LetForm(bindings, body) == L(<<S("let"), bindings>> \o body)
LetCall(name) == LetForm(L(<<L(<<S("x"), N(2)>>)>>), <<L(<<S(name)>>)>>)

DefineF == L(<<S("define"), L(<<S("f")>>), S("x")>>)
DefineG == DefineForm(S("g"), L(<<S("mu"), nil, S("x")>>))

LetPrograms ==
    { LetForm(L(<<L(<<S("x"), N(1)>>), L(<<S("y"), S("x")>>)>>), <<S("y")>>),
      LetForm(L(<<L(<<S("a"), N(1)>>), L(<<S("b"), N(2)>>)>>),
              <<L(<<S("+"), S("a"), S("b")>>)>>),
      LetForm(L(<<L(<<S("x"), N(1)>>)>>), <<DefineForm(S("y"), N(9)), S("x")>>),
      LetForm(nil, <<S("x")>>) }

ScopePrograms ==
    { DefineForm(S("x"), N(5)), DefineF, DefineG,
      L(<<S("f")>>), L(<<S("g")>>), LetCall("f"), LetCall("g") }
    \cup LetPrograms

ScopeMakeChildFrame ==
    /\ steps < MaxApiSteps
    /\ \E env \in 1..Len(frames) : MakeChildFrame(env, L(<<S("x")>>), L(<<N(1)>>))

ScopeEval ==
    /\ steps < MaxApiSteps
    /\ \E env \in 1..Len(frames), expr \in ScopePrograms : SchemeEval(expr, env)

NextScope == ScopeMakeChildFrame \/ ScopeEval

SpecScope == Init /\ [][NextScope]_vars

(* The last step called the procedure named name: directly from frame      *)
(* last.env, or from the frame of a let that binds x to 2 there.           *)
IsCall(name) ==
    /\ last.op = "eval"
    /\ last.expr \in {L(<<S(name)>>), LetCall(name)}
    /\ Visible(last.pre, last.env, name).k = "ok"

(* The heap at the call and the frame the call is made from.               *)
CallHeap ==
    IF last.expr.first = S("let")
    THEN Append(last.pre, [bindings |-> [s \in {"x"} |-> N(2)], parent |-> last.env])
    ELSE last.pre

CallSite == IF last.expr.first = S("let") THEN Len(last.pre) + 1 ELSE last.env

Callee(name) == Visible(last.pre, last.env, name).v

(* C5: a call of the lambda procedure f runs the body in a new frame whose *)
(* parent is the frame in which f was defined: the free variable x of the  *)
(* body has the value visible from the definition frame (an error when x   *)
(* is not visible from there), whatever frame the call is made from.       *)
C5_LexicalScope ==
    (IsCall("f") /\ Callee("f").t = "lambda") =>
        /\ last.res = Visible(CallHeap, Callee("f").env, "x")
        /\ frames = Append(CallHeap, [bindings |-> <<>>, parent |-> Callee("f").env])

(* f was called where x is visible with another value than at f's          *)
(* definition, and where x is visible although it is not at the            *)
(* definition.                                                             *)
C5_Witness ==
    /\ IsCall("f")
    /\ Callee("f").t = "lambda"
    /\ last.res.k = "ok"
    /\ Visible(CallHeap, CallSite, "x").k = "ok"
    /\ Visible(CallHeap, CallSite, "x") # last.res

C5_WitnessUnbound ==
    /\ IsCall("f")
    /\ Callee("f").t = "lambda"
    /\ last.res.k = "err"
    /\ Visible(CallHeap, CallSite, "x").k = "ok"


(* The frames of the heap fs from which name is visible with value p.      *)
SitesOf(fs, name, p) ==
    {E \in 1..Len(fs) : Visible(fs, E, name) = [k |-> "ok", v |-> p]}

(* C6: the value of (mu () x) holds formals and body and no frame; a call  *)
(* of it runs the body in a new frame whose parent is the frame of the     *)
(* call site, so the result is the x visible from the call site, and a     *)
(* call from a frame where another x is visible gives another result;      *)
(* calls of the lambda procedure f give the same result at every call      *)
(* site.                                                                   *)
C6_DynamicScope ==
    /\ IsCall("g") =>
          /\ Callee("g") = [t |-> "mu", formals |-> nil, body |-> L(<<S("x")>>)]
          /\ last.res = Visible(CallHeap, CallSite, "x")
          /\ frames = Append(CallHeap, [bindings |-> <<>>, parent |-> CallSite])
          /\ \A E2 \in SitesOf(last.pre, "g", Callee("g")) :
                Visible(last.pre, E2, "x") # Visible(CallHeap, CallSite, "x")
                    => Res(EvalIn(L(<<S("g")>>), E2, last.pre)) # last.res
    /\ (IsCall("f") /\ Callee("f").t = "lambda") =>
          \A E2 \in SitesOf(last.pre, "f", Callee("f")) :
              Res(EvalIn(L(<<S("f")>>), E2, last.pre)) = last.res

(* g was called where x is 2; called from the frame of the let form        *)
(* itself, where another x is visible, it gives that x.                    *)
C6_Witness ==
    /\ IsCall("g")
    /\ last.expr = LetCall("g")
    /\ last.res = [k |-> "ok", v |-> N(2)]
    /\ Visible(last.pre, last.env, "x").k = "ok"
    /\ Res(EvalIn(L(<<S("g")>>), last.env, last.pre)) = Visible(last.pre, last.env, "x")
    /\ Visible(last.pre, last.env, "x") # last.res

IsLet(expr) == expr.t = "pair" /\ expr.first = S("let")

(* The names and the initialising expressions of the bindings of a let     *)
(* form whose bindings are (name expr) lists.                              *)
LetNames(expr) ==
    [i \in 1..py_len(expr.second.first) |->
        py_getitem(py_getitem(expr.second.first, i - 1), 0).s]
LetInits(expr) ==
    [i \in 1..py_len(expr.second.first) |->
        py_getitem(py_getitem(expr.second.first, i - 1), 1)]

(* The value in frame E of the heap fs of an expression that is a number   *)
(* or a symbol.                                                            *)
AtomValue(fs, E, e) ==
    IF scheme_symbolp(e) THEN Visible(fs, E, e.s) ELSE [k |-> "ok", v |-> e]

(* C9: a let form evaluated in frame E evaluates every initialising        *)
(* expression in E itself, binds the names in a new child frame of E in    *)
(* which the body runs, and changes no existing frame: what a lookup of a  *)
(* let name from E gives is the same after the let as before.              *)
C9_LetFrame ==
    (last.op = "eval" /\ last.expr \in LetPrograms) =>
        LET E == last.env
            names == LetNames(last.expr)
            inits == LetInits(last.expr)
            new == Len(last.pre) + 1
        IN  /\ \A i \in 1..Len(last.pre) : frames[i] = last.pre[i]
            /\ \A i \in 1..Len(names) :
                  Visible(frames, E, names[i]) = Visible(last.pre, E, names[i])
            /\ frames[new].parent = E
            /\ IF \E i \in 1..Len(inits) : AtomValue(last.pre, E, inits[i]).k = "err"
               THEN last.res = [k |-> "err", exc |-> "SchemeError",
                                msg |-> "unknown identifier"]
               ELSE /\ \A i \in 1..Len(names) :
                          frames[new].bindings[names[i]] =
                              AtomValue(last.pre, E, inits[i]).v
                    /\ {names[i] : i \in 1..Len(names)} \subseteq DOMAIN frames[new].bindings
                    /\ last.res = Res(EvalIn(py_getitem(last.expr.second,
                                                        py_len(last.expr.second) - 1),
                                             new, frames))

(* The let that binds x to 1 and y to x ran where x was visible with       *)
(* another value: y got the outer x.                                       *)
C9_Witness ==
    /\ last.op = "eval"
    /\ last.expr = LetForm(L(<<L(<<S("x"), N(1)>>), L(<<S("y"), S("x")>>)>>), <<S("y")>>)
    /\ last.res.k = "ok"
    /\ last.res = Visible(last.pre, last.env, "x")
    /\ last.res.v # N(1)

-----------------------------------------------------------------------------
(* SpecFormals: lambda, mu and define forms over well-formed and malformed *)
(* formals, and let forms over well-formed and malformed bindings,         *)
(* evaluated in the global frame.                                          *)

FormalsOperands ==
    { L(<<S("a"), S("b")>>),                    \* (a b)
      L(<<S("x"), S("x")>>),                    \* (x x)
      L(<<S("a"), S("b"), S("a")>>),            \* (a b a)
      L(<<S("a"), S("b"), S("b")>>),            \* (a b b)
      S("x"),                                   \* x
      N(5),                                     \* 5
      Pair(S("a"), S("b")),                     \* (a . b)
      L(<<S("a"), N(5)>>) }                     \* (a 5)

LambdaForm(formals) == L(<<S("lambda"), formals, S("a")>>)
MuForm(formals) == L(<<S("mu"), formals, S("a")>>)
ShorthandForm(formals) == L(<<S("define"), Pair(S("f"), formals), S("a")>>)

LetBindings ==
    { L(<<L(<<S("a"), N(1)>>), L(<<S("b"), N(2)>>)>>),   \* ((a 1) (b 2))
      L(<<L(<<S("a"), N(1)>>), L(<<S("a"), N(2)>>)>>),   \* ((a 1) (a 2))
      L(<<S("ab")>>),                                    \* (ab)
      L(<<S("a")>>),                                     \* (a)
      L(<<S("abc")>>),                                   \* (abc)
      L(<<L(<<N(5), N(1)>>)>>),                          \* ((5 1))
      L(<<L(<<S("a"), N(1), N(2)>>)>>),                  \* ((a 1 2))
      L(<<L(<<S("a")>>)>>) }                             \* ((a))

FormalsPrograms ==
    {LambdaForm(formals) : formals \in FormalsOperands}
    \cup {MuForm(formals) : formals \in FormalsOperands}
    \cup {ShorthandForm(formals) : formals \in FormalsOperands}

LetBindingPrograms ==
    {LetForm(bindings, <<N(7)>>) : bindings \in LetBindings}
    \cup {DefineForm(S("b"), N(1))}

FormalsEval ==
    /\ steps < MaxSteps
    /\ \E expr \in FormalsPrograms : SchemeEval(expr, 1)

LetBindingsEval ==
    /\ steps < MaxSteps
    /\ \E expr \in LetBindingPrograms : SchemeEval(expr, 1)

NextFormals == FormalsEval \/ LetBindingsEval

SpecFormals == Init /\ [][NextFormals]_vars

(* The last step evaluated a lambda form, a mu form or a define            *)
(* procedure-shorthand.                                                    *)
IsProcedureForm ==
    /\ last.op = "eval"
    /\ last.expr \in FormalsPrograms

IsShorthand == last.expr.first = S("define")

(* The formals operand of the form.                                        *)
FormalsOf ==
    IF IsShorthand THEN last.expr.second.first.second ELSE last.expr.second.first

(* A proper list in which some symbol stands at two different positions.   *)
HasRepeatedSymbol(formals) ==
    /\ scheme_listp(formals)
    /\ \E i, j \in 1..Len(py_list(formals)) :
          /\ i # j
          /\ scheme_symbolp(py_list(formals)[i])
          /\ py_list(formals)[i] = py_list(formals)[j]

(* A proper list of symbols.                                               *)
IsSymbolList(formals) ==
    /\ scheme_listp(formals)
    /\ \A i \in 1..Len(py_list(formals)) : scheme_symbolp(py_list(formals)[i])

SchemeErrorRaised == last.res.k = "err" /\ last.res.exc = "SchemeError"

(* C7: a lambda form, a mu form or a define procedure-shorthand whose      *)
(* formals list has the same symbol at two positions raises SchemeError    *)
(* and changes no frame (no binding is made); with a list of distinct      *)
(* symbols the form succeeds.                                              *)
C7_RepeatedFormals ==
    IsProcedureForm =>
        /\ HasRepeatedSymbol(FormalsOf) => (SchemeErrorRaised /\ frames = last.pre)
        /\ (IsSymbolList(FormalsOf) /\ ~HasRepeatedSymbol(FormalsOf)) => last.res.k = "ok"

(* The shorthand (define (f a b a) a) was rejected.                        *)
C7_Witness ==
    /\ IsProcedureForm
    /\ IsShorthand
    /\ FormalsOf = L(<<S("a"), S("b"), S("a")>>)
    /\ SchemeErrorRaised
    /\ "f" \notin DOMAIN frames[1].bindings

(* C8, as claimed: a lambda or mu form whose formals operand is not a      *)
(* proper list of symbols raises SchemeError and creates no procedure.     *)
C8_NonListFormalsRejected ==
    (IsProcedureForm /\ ~IsShorthand /\ ~IsSymbolList(FormalsOf)) => SchemeErrorRaised

(* The entries of a let's bindings list are (symbol expr) lists with       *)
(* distinct symbols.                                                       *)
WellFormedBindings(bindings) ==
    /\ \A i \in 1..Len(py_list(bindings)) :
          /\ scheme_listp(py_list(bindings)[i])
          /\ py_len(py_list(bindings)[i]) = 2
          /\ scheme_symbolp(py_list(bindings)[i].first)
    /\ \A i, j \in 1..Len(py_list(bindings)) :
          i # j => py_list(bindings)[i].first # py_list(bindings)[j].first

(* C10, as claimed: a let form whose bindings list has an entry that is    *)
(* not a two-element list headed by a symbol, or two entries for the same  *)
(* symbol, is rejected with SchemeError.                                   *)
C10_MalformedLetRejected ==
    (last.op = "eval" /\ IsLet(last.expr) /\ ~WellFormedBindings(last.expr.second.first))
        => SchemeErrorRaised

-----------------------------------------------------------------------------
(* SpecControl: one cond, if, and or or form, or one combination, over     *)
(* operands that are false, true or raise, evaluated in the global frame,  *)
(* where the operand y is unbound, or bound to #f or to 7 by a define      *)
(* evaluated before.                                                       *)

Injective(f) == \A i, j \in DOMAIN f : i # j => f[i] # f[j]

(* The expressions of the scheme_eval calls of log that are in the set E,  *)
(* in call order.                                                          *)
Evaluated(log, E) ==
    LET sel == SelectSeq(log, LAMBDA x : x.e = "eval" /\ x.expr \in E)
    IN  [i \in 1..Len(sel) |-> sel[i].expr]

Range(f) == {f[i] : i \in DOMAIN f}

NotOne == L(<<S("not"), N(1)>>)
Quoted(x) == L(<<S("quote"), x>>)

(* Clause tests: #f, (not 1), 0, the unbound y, and else.                  *)
CondTests == {Bool(FALSE), NotOne, N(0), S("y"), S("else")}

(* The body of clause i: k numbers that no other clause has.               *)
CondBody(i, k) == [j \in 1..k |-> N(10 * i + j)]

CondForm(tests, sizes) ==
    L(<<S("cond")>> \o [i \in 1..Len(tests) |-> L(<<tests[i]>> \o CondBody(i, sizes[i]))])

(* No control form has been evaluated yet.                                 *)
ControlReady ==
    \/ last.op = "init"
    \/ last.op = "eval" /\ last.expr.first = S("define")

ControlDefine ==
    /\ last.op = "init"
    /\ \E v \in {Bool(FALSE), N(7)} : SchemeEval(DefineForm(S("y"), v), 1)

CondEval ==
    /\ ControlReady
    /\ \E n \in 0..MaxOperands :
          \E tests \in [1..n -> CondTests], sizes \in [1..n -> 0..2] :
              /\ Injective(tests)
              /\ SchemeEval(CondForm(tests, sizes), 1)

IsCond == last.op = "eval" /\ last.expr.t = "pair" /\ last.expr.first = S("cond")

Clauses == py_list(last.expr.second)

(* Clause i is headed by else and is not the last clause, or has no body.  *)
BadElse(i) ==
    /\ Clauses[i].first = S("else")
    /\ (i < Len(Clauses) \/ Clauses[i].second = nil)

(* C11, as claimed: a cond form with a clause headed by else that is not   *)
(* the last clause, or that has an empty body, raises SchemeError,         *)
(* whatever the tests of the clauses before it evaluate to.                *)
C11_CondElseRejected ==
    (IsCond /\ \E i \in 1..Len(Clauses) : BadElse(i)) => SchemeErrorRaised

(* The value of the test of clause i, evaluated alone in the frame of the  *)
(* cond; else counts as True.                                              *)
TestValue(i) ==
    IF Clauses[i].first = S("else") THEN [k |-> "ok", v |-> Bool(TRUE)]
    ELSE Res(EvalIn(Clauses[i].first, last.env, last.pre))

(* The first clause whose test is not False (0 when there is none).        *)
Stops == {i \in 1..Len(Clauses) : TestValue(i).k = "err" \/ scheme_true(TestValue(i).v)}
Match == IF Stops = {} THEN 0 ELSE SetMin(Stops)

CondTestsOf == {Clauses[i].first : i \in 1..Len(Clauses)} \ {S("else")}
CondBodiesOf == UNION {Range(py_list(Clauses[i].second)) : i \in 1..Len(Clauses)}

(* C12: a cond whose first clause with a test that is not False is reached *)
(* without an error evaluates the tests up to that clause in order, once   *)
(* each, and no later test; of the bodies it evaluates exactly the         *)
(* expressions of that clause, in order; its value is the test's own value *)
(* when the body is empty, the value of the last body expression           *)
(* otherwise, and okay when every test is False.                           *)
C12_CondOrder ==
    (IsCond /\ (Match = 0 \/ (TestValue(Match).k = "ok" /\ ~BadElse(Match)))) =>
        LET m == IF Match = 0 THEN Len(Clauses) ELSE Match
            body == IF Match = 0 THEN <<>> ELSE py_list(Clauses[Match].second)
        IN  /\ Evaluated(last.log, CondTestsOf) =
                  SelectSeq([i \in 1..m |-> Clauses[i].first], LAMBDA t : t # S("else"))
            /\ Evaluated(last.log, CondBodiesOf) = body
            /\ last.res = IF Match = 0 THEN [k |-> "ok", v |-> okay]
                          ELSE IF body = <<>> THEN TestValue(Match)
                          ELSE Res(EvalIn(body[Len(body)], last.env, last.pre))

(* A cond of three clauses stopped at its second clause, whose test 0 is   *)
(* true and whose body is empty, after a false test with a body.           *)
C12_Witness ==
    /\ IsCond
    /\ Len(Clauses) = 3
    /\ Match = 2
    /\ Clauses[2] = L(<<N(0)>>)
    /\ Clauses[1].second # nil
    /\ Clauses[3].second # nil
    /\ last.res = [k |-> "ok", v |-> N(0)]

(* Conditions of if forms: #f, (not 1), 0, (), #t, (cond) whose value is   *)
(* okay, and y.                                                            *)
IfConditions ==
    {Bool(FALSE), NotOne, N(0), nil, Bool(TRUE), L(<<S("cond")>>), S("y")}

(* if forms with no to four operands.                                      *)
IfOperands ==
    {<<>>}
    \cup {<<c>> : c \in IfConditions}
    \cup {<<c, a>> : c \in IfConditions, a \in {N(11), L(<<S("+"), N(2)>>)}}
    \cup {<<c, a, b>> : c \in IfConditions, a \in {N(11), L(<<S("+"), N(2)>>)},
                        b \in {N(12), L(<<S("+"), N(3)>>)}}
    \cup {<<c, N(11), N(12), N(13)>> : c \in IfConditions}

IfEval ==
    /\ ControlReady
    /\ \E ops \in IfOperands : SchemeEval(L(<<S("if")>> \o ops), 1)

IsForm(name) == last.op = "eval" /\ last.expr.t = "pair" /\ last.expr.first = S(name)

Operands == py_list(last.expr.second)

(* The value of operand i evaluated alone in the frame of the form.        *)
OperandValue(i) == Res(EvalIn(Operands[i], last.env, last.pre))

(* The number of calls the evaluation of operand i alone makes.            *)
OperandCalls(i) == Len(EvalIn(Operands[i], last.env, last.pre).st.log)

(* C13: an if form with fewer than 2 or more than 3 operands raises        *)
(* SchemeError and evaluates nothing; otherwise the condition is evaluated *)
(* once, then the consequent alone when the condition's value is not False *)
(* (0, the empty list and okay are not False), the alternative alone when  *)
(* it is False and there are three operands, and nothing more, with the    *)
(* result okay, when it is False and there are two.                        *)
C13_If ==
    IsForm("if") =>
        IF Len(Operands) \notin {2, 3}
        THEN SchemeErrorRaised /\ Len(last.log) = 1
        ELSE LET taken == IF OperandValue(1).k = "err" THEN 0
                          ELSE IF OperandValue(1).v # Bool(FALSE) THEN 2
                          ELSE IF Len(Operands) = 3 THEN 3
                          ELSE 0
             IN  /\ Evaluated(last.log, Range(Operands)) =
                       IF taken = 0 THEN <<Operands[1]>>
                       ELSE <<Operands[1], Operands[taken]>>
                 /\ last.res = IF OperandValue(1).k = "err" THEN OperandValue(1)
                               ELSE IF taken = 0 THEN [k |-> "ok", v |-> okay]
                               ELSE OperandValue(taken)
                 /\ Len(last.log) = 1 + OperandCalls(1)
                                      + IF taken = 0 THEN 0 ELSE OperandCalls(taken)

(* An if whose condition is 0 took the consequent, and an if whose         *)
(* condition is false and that has no alternative returned okay.           *)
C13_Witness ==
    /\ IsForm("if")
    /\ Len(Operands) = 3
    /\ Operands[1] = N(0)
    /\ last.res = OperandValue(2)
    /\ last.res # OperandValue(3)

C13_WitnessOkay ==
    /\ IsForm("if")
    /\ Len(Operands) = 2
    /\ Operands[1] = S("y")
    /\ OperandValue(1) = [k |-> "ok", v |-> Bool(FALSE)]
    /\ last.res = [k |-> "ok", v |-> okay]

(* Operands of and and or forms: #f, (not 1), 0, (), (quote a) and y.      *)
AndOrOperands == {Bool(FALSE), NotOne, N(0), nil, Quoted(S("a")), S("y")}

AndEval ==
    /\ ControlReady
    /\ \E n \in 0..MaxOperands : \E ops \in [1..n -> AndOrOperands] :
          Injective(ops) /\ SchemeEval(L(<<S("and")>> \o ops), 1)

OrEval ==
    /\ ControlReady
    /\ \E n \in 0..MaxOperands : \E ops \in [1..n -> AndOrOperands] :
          Injective(ops) /\ SchemeEval(L(<<S("or")>> \o ops), 1)

(* The scheme_eval calls of the log made on the operands of the form.      *)
OperandCallsOf(log) ==
    SelectSeq(log, LAMBDA x : x.e = "eval" /\ x.expr \in Range(Operands))

(* Of the operands evaluated, exactly the last operand of the form is a    *)
(* tail call.                                                              *)
OnlyLastIsTail ==
    \A i \in 1..Len(OperandCallsOf(last.log)) :
        OperandCallsOf(last.log)[i].tail = (i = Len(Operands))

(* The first operand of an and form at which it ends: one whose value is   *)
(* False or that raises, else the last.                                    *)
AndEnd ==
    SetMin({i \in 1..Len(Operands) :
               \/ i = Len(Operands)
               \/ OperandValue(i).k = "err"
               \/ OperandValue(i).v = Bool(FALSE)})

(* C14: and without operands is True; otherwise the operands are evaluated *)
(* from the left, once each, up to the first whose value is False, no      *)
(* operand to its right is evaluated and the result is False; when no      *)
(* operand before the last is False the result is the value of the last    *)
(* operand, which is evaluated by a tail call.                             *)
C14_And ==
    IsForm("and") =>
        IF Len(Operands) = 0
        THEN last.res = [k |-> "ok", v |-> Bool(TRUE)] /\ Len(last.log) = 1
        ELSE /\ Evaluated(last.log, Range(Operands)) = SubSeq(Operands, 1, AndEnd)
             /\ OnlyLastIsTail
             /\ last.res = IF AndEnd < Len(Operands) /\ OperandValue(AndEnd).k = "ok"
                           THEN [k |-> "ok", v |-> Bool(FALSE)]
                           ELSE OperandValue(AndEnd)

(* and over 0, () and (quote a) returned the value of the last operand;    *)
(* and stopped at a false second operand of three.                         *)
C14_Witness ==
    /\ IsForm("and")
    /\ Len(Operands) = 3
    /\ {Operands[1], Operands[2]} = {N(0), nil}
    /\ Operands[3] = Quoted(S("a"))
    /\ last.res = [k |-> "ok", v |-> S("a")]

C14_WitnessShort ==
    /\ IsForm("and")
    /\ Len(Operands) = 3
    /\ AndEnd = 2
    /\ last.res = [k |-> "ok", v |-> Bool(FALSE)]
    /\ Len(Evaluated(last.log, Range(Operands))) = 2

(* The first operand of an or form at which it ends: one whose value is    *)
(* not False or that raises, else the last.                                *)
OrEnd ==
    SetMin({i \in 1..Len(Operands) :
               \/ i = Len(Operands)
               \/ OperandValue(i).k = "err"
               \/ OperandValue(i).v # Bool(FALSE)})

(* C15: or without operands is False; otherwise the operands are evaluated *)
(* from the left, once each, up to the first whose value is not False,     *)
(* which is the result, and no operand to its right is evaluated; when     *)
(* every operand before the last is False the result is the value of the   *)
(* last operand, which is evaluated by a tail call.                        *)
C15_Or ==
    IsForm("or") =>
        IF Len(Operands) = 0
        THEN last.res = [k |-> "ok", v |-> Bool(FALSE)] /\ Len(last.log) = 1
        ELSE /\ Evaluated(last.log, Range(Operands)) = SubSeq(Operands, 1, OrEnd)
             /\ OnlyLastIsTail
             /\ last.res = OperandValue(OrEnd)

(* or returned 0, its second operand of three, after a false first one;    *)
(* or over false operands only returned False.                             *)
C15_Witness ==
    /\ IsForm("or")
    /\ Len(Operands) = 3
    /\ OrEnd = 2
    /\ Operands[2] = N(0)
    /\ last.res = [k |-> "ok", v |-> N(0)]

C15_WitnessFalse ==
    /\ IsForm("or")
    /\ Len(Operands) = 3
    /\ OrEnd = 3
    /\ last.res = [k |-> "ok", v |-> Bool(FALSE)]

(* Heads of combinations: the primitives + and not, a lambda and a mu      *)
(* expression, y, and the values 5, the symbol a and () that are no        *)
(* procedures.                                                             *)
CallHeads ==
    { S("+"), S("not"),
      L(<<S("lambda"), L(<<S("a"), S("b")>>), S("b")>>),
      L(<<S("mu"), L(<<S("a")>>), S("a")>>),
      S("y"), N(5), Quoted(S("a")), nil }

CallOperands == {N(1), N(2), L(<<S("-"), N(3)>>), Quoted(S("b")), S("y")}

CallEval ==
    /\ ControlReady
    /\ \E head \in CallHeads, n \in 0..MaxOperands : \E ops \in [1..n -> CallOperands] :
          Injective(ops) /\ SchemeEval(L(<<head>> \o ops), 1)

(* The last step evaluated a combination whose head is no special-form     *)
(* keyword.                                                                *)
IsCombination ==
    /\ last.op = "eval"
    /\ last.expr.t = "pair"
    /\ last.expr.first \in CallHeads

HeadValue == Res(EvalIn(last.expr.first, last.env, last.pre))

(* The calls made by evaluating the head alone, and operand i alone.       *)
HeadLog == EvalIn(last.expr.first, last.env, last.pre).st.log
OperandLog(i) == EvalIn(Operands[i], last.env, last.pre).st.log

(* The calls of operands 1..k evaluated one after the other.               *)
RECURSIVE OperandLogs(_)
OperandLogs(k) == IF k = 0 THEN <<>> ELSE OperandLogs(k - 1) \o OperandLog(k)

(* The first operand that raises, else the last operand (0 without         *)
(* operands).                                                              *)
CallEnd ==
    IF Operands = <<>> THEN 0
    ELSE SetMin({i \in 1..Len(Operands) :
                    i = Len(Operands) \/ OperandValue(i).k = "err"})

OperandsRaise == CallEnd # 0 /\ OperandValue(CallEnd).k = "err"

(* The calls up to the application: the combination, its head, then the    *)
(* operands from the left.                                                 *)
CallPrefix ==
    <<[e |-> "eval", expr |-> last.expr, env |-> last.env, tail |-> FALSE]>>
    \o HeadLog \o OperandLogs(CallEnd)

(* C16: evaluating a combination evaluates the head, then every operand    *)
(* once from left to right, and then calls scheme_apply with the head's    *)
(* value and the list of the operands' values; nothing is applied when the *)
(* head or an operand raises, and when the head's value is no procedure    *)
(* the application raises SchemeError 'cannot call', no further call is    *)
(* made and no frame changes.                                              *)
C16_ApplicationOrder ==
    IsCombination =>
        IF HeadValue.k = "err"
        THEN last.res = HeadValue /\ last.log = SubSeq(CallPrefix, 1, 1 + Len(HeadLog))
        ELSE IF OperandsRaise
        THEN last.res = OperandValue(CallEnd) /\ last.log = CallPrefix
        ELSE /\ Len(last.log) > Len(CallPrefix)
             /\ SubSeq(last.log, 1, Len(CallPrefix)) = CallPrefix
             /\ last.log[Len(CallPrefix) + 1] =
                   [e |-> "apply", procedure |-> HeadValue.v,
                    args |-> L([i \in 1..Len(Operands) |-> OperandValue(i).v])]
             /\ HeadValue.v.t \notin {"prim", "lambda", "mu"} =>
                   /\ last.res = [k |-> "err", exc |-> "SchemeError", msg |-> "cannot call"]
                   /\ Len(last.log) = Len(CallPrefix) + 1
                   /\ frames = last.pre

(* The lambda was applied to the values of two operands, one of them a     *)
(* combination; and 5 was called with three operands.                      *)
C16_Witness ==
    /\ IsCombination
    /\ HeadValue.k = "ok"
    /\ HeadValue.v.t = "lambda"
    /\ Len(Operands) = 2
    /\ Operands[1] = L(<<S("-"), N(3)>>)
    /\ last.res = OperandValue(2)

C16_WitnessCannotCall ==
    /\ IsCombination
    /\ last.expr.first = N(5)
    /\ Len(Operands) = 3
    /\ ~OperandsRaise
    /\ last.res = [k |-> "err", exc |-> "SchemeError", msg |-> "cannot call"]

NextControl == ControlDefine \/ CondEval \/ IfEval \/ AndEval \/ OrEval \/ CallEval

SpecControl == Init /\ [][NextControl]_vars

-----------------------------------------------------------------------------
(* SpecPrimitive: one call of a primitive procedure with no to MaxOperands *)
(* arguments of several types, in the global frame, where x is unbound or  *)
(* bound to 5 by a define evaluated before.                                *)

PrimitiveHeads == {"not", "=", "-", "+", "eval", "apply"}

(* Arguments: 1, 2, #t, the symbol x, the lists (+ 1 2) and (1 2), and the *)
(* procedure +.                                                            *)
PrimitiveArgs ==
    { N(1), N(2), Bool(TRUE), Quoted(S("x")),
      Quoted(L(<<S("+"), N(1), N(2)>>)), Quoted(L(<<N(1), N(2)>>)), S("+") }

PrimDefine ==
    /\ last.op = "init"
    /\ SchemeEval(DefineForm(S("x"), N(5)), 1)

PrimCall ==
    /\ ControlReady
    /\ \E name \in PrimitiveHeads, n \in 0..MaxOperands :
          \E ops \in [1..n -> PrimitiveArgs] : SchemeEval(L(<<S(name)>> \o ops), 1)

NextPrimitive == PrimDefine \/ PrimCall

SpecPrimitive == Init /\ [][NextPrimitive]_vars

IsPrimitiveCall ==
    /\ last.op = "eval"
    /\ last.expr.t = "pair"
    /\ scheme_symbolp(last.expr.first)
    /\ last.expr.first.s \in PrimitiveHeads

(* The numbers of arguments the primitive takes.                           *)
TakesArguments(name, n) ==
    CASE name \in {"not", "eval"} -> n = 1
      [] name \in {"=", "apply"} -> n = 2
      [] name = "-" -> n >= 1
      [] name = "+" -> TRUE

(* C17, as claimed: a call of a primitive procedure with a number of       *)
(* arguments the procedure does not take ends in SchemeError, and no call  *)
(* of a primitive ends in an exception of the host that is not a           *)
(* SchemeError.                                                            *)
C17_PrimitiveErrors ==
    IsPrimitiveCall =>
        /\ ~TakesArguments(last.expr.first.s, Len(Operands)) => SchemeErrorRaised
        /\ last.res.k = "err" => last.res.exc = "SchemeError"

-----------------------------------------------------------------------------
(* SpecDivision: one call of /, expt, quotient, modulo or remainder with   *)
(* no to MaxOperands arguments that are small integers or #t.              *)

DivisionHeads == {"/", "expt", "quotient", "modulo", "remainder"}

DivisionArgs == {N(k) : k \in (0 - 2)..3} \cup {Bool(TRUE)}

DivisionCall ==
    /\ last.op = "init"
    /\ \E name \in DivisionHeads, n \in 0..MaxOperands :
          \E ops \in [1..n -> DivisionArgs] : SchemeEval(L(<<S(name)>> \o ops), 1)

NextDivision == DivisionCall

SpecDivision == Init /\ [][NextDivision]_vars

IsDivisionCall ==
    /\ last.op = "eval"
    /\ last.expr.t = "pair"
    /\ scheme_symbolp(last.expr.first)
    /\ last.expr.first.s \in DivisionHeads

(* The call is one of numbers whose computation divides by zero.           *)
DividesByZero ==
    /\ \A i \in 1..Len(Operands) : Operands[i].t = "num"
    /\ CASE last.expr.first.s = "/" ->
               \/ Len(Operands) = 1 /\ Operands[1] = N(0)
               \/ \E i \in 2..Len(Operands) : Operands[i] = N(0)
         [] last.expr.first.s = "expt" ->
               Len(Operands) = 2 /\ Operands[1] = N(0) /\ Operands[2].n < 0
         [] OTHER -> Len(Operands) = 2 /\ Operands[2] = N(0)

(* C18, as claimed: a call of /, quotient, modulo, remainder or expt whose *)
(* computation divides by zero raises SchemeError, and no call of them     *)
(* ends in ZeroDivisionError.                                              *)
C18_ZeroDivision ==
    IsDivisionCall =>
        /\ DividesByZero => SchemeErrorRaised
        /\ last.res.k = "err" => last.res.exc # "ZeroDivisionError"

-----------------------------------------------------------------------------
(* read_eval_print_loop(next_line, env, interactive, quiet, startup) on    *)
(* the global frame, not quiet and without files to load.  The input is a  *)
(* sequence of lines, a line a sequence of top-level forms.  next_line()   *)
(* returns the source of the next line of the input and raises EOFError at *)
(* its end; src.more_on_line tells whether forms are left on the line of   *)
(* src and scheme_read(src) takes the next one.                            *)

(* The reader's side of the loop: the source next_line() returns holds the *)
(* forms of the next line of the input that was not handed out yet (a call *)
(* at the end of the input raises EOFError); more_on_line tells whether    *)
(* forms of the line are left, scheme_read returns the first of them and   *)
(* consumed is the source after that read.                                 *)
at_eof(lines) == lines = <<>>
next_line(lines) == Head(lines)
more_on_line(src) == src # <<>>
scheme_read(src) == Head(src)
consumed(src) == Tail(src)

(* A line of text written by print that is not the result of a form.       *)
Text(s) == [k |-> "text", s |-> s]

(* The call of read_eval_print_loop.                                       *)
ReplStart(input, interactive, startup) ==
    /\ repl.pc = "off"
    /\ repl' = [pc |-> "next_line", input |-> input, lines |-> input, src |-> <<>>,
                out |-> <<>>, evaluated |-> <<>>, interactive |-> interactive,
                startup |-> startup, interrupted |-> FALSE]
    /\ UNCHANGED <<frames, last, steps, colony, hog>>

(* src = next_line(), and the handler of EOFError: print() and return.     *)
ReplNextLine ==
    /\ repl.pc = "next_line"
    /\ IF at_eof(repl.lines)
       THEN repl' = [repl EXCEPT !.pc = "returned", !.out = Append(@, Text(""))]
       ELSE repl' = [repl EXCEPT !.pc = "more_on_line", !.src = next_line(repl.lines),
                                 !.lines = Tail(repl.lines)]
    /\ UNCHANGED <<frames, last, steps, colony, hog>>

(* while src.more_on_line is false: back to the head of the while True     *)
(* loop.                                                                   *)
ReplLineDone ==
    /\ repl.pc = "more_on_line"
    /\ ~more_on_line(repl.src)
    /\ repl' = [repl EXCEPT !.pc = "next_line"]
    /\ UNCHANGED <<frames, last, steps, colony, hog>>

(* expression = scheme_read(src); result = scheme_eval(expression, env);   *)
(* print(result) (no form of the model evaluates to None), and the         *)
(* handlers of the try statement: SchemeError and the RuntimeError of the  *)
(* recursion limit print one line and the loop goes back to                *)
(* src = next_line(); any other exception leaves the loop.                 *)
ReplReadEval ==
    /\ repl.pc = "more_on_line"
    /\ more_on_line(repl.src)
    /\ LET expression == scheme_read(repl.src)
           r == scheme_eval(expression, 1, FALSE, State0, 0)
           read == [repl EXCEPT !.src = consumed(repl.src),
                                !.evaluated = Append(@, expression)]
       IN  /\ frames' = r.st.frames
           /\ last' = [op |-> "eval", expr |-> expression, env |-> 1, pre |-> frames,
                       res |-> Res(r), maxd |-> r.st.maxd, log |-> r.st.log,
                    escaped |-> r.st.escaped]
           /\ steps' = steps + 1
           /\ UNCHANGED <<colony, hog>>
           /\ repl' =
                 IF r.k = "ok"
                 THEN [read EXCEPT !.out = Append(@, Res(r))]
                 ELSE IF r.exc \in {"SchemeError", "RuntimeError"}
                 THEN [read EXCEPT !.pc = "next_line", !.out = Append(@, Res(r))]
                 ELSE [read EXCEPT !.pc = "raised"]

(* A KeyboardInterrupt while the loop reads or evaluates: raised again     *)
(* when not startup; else printed, and the loop returns when not           *)
(* interactive and goes on with src = next_line() when interactive.        *)
ReplKeyboardInterrupt ==
    /\ repl.pc \in {"next_line", "more_on_line"}
    /\ ~repl.interrupted
    /\ repl' = [repl EXCEPT
                   !.interrupted = TRUE,
                   !.pc = IF ~repl.startup THEN "raised"
                          ELSE IF ~repl.interactive THEN "returned"
                          ELSE "next_line",
                   !.out = IF repl.startup THEN @ \o <<Text(""), Text("KeyboardInterrupt")>> ELSE @]
    /\ UNCHANGED <<frames, last, steps, colony, hog>>

-----------------------------------------------------------------------------
(* SpecRepl: the loop run on inputs of no to two lines over forms that     *)
(* define a, look a up, call the number 1 and nest conditions deeper than  *)
(* the host's recursion limit.                                             *)

RECURSIVE Nested(_)
Nested(k) == IF k = 0 THEN N(1) ELSE L(<<S("if"), Nested(k - 1), N(2)>>)

DefineA == DefineForm(S("a"), N(1))
CallOne == L(<<N(1)>>)
TooDeep == Nested(MaxHostDepth)

ReplLines ==
    { <<DefineA>>, <<S("a")>>, <<S("a"), DefineA>>, <<DefineA, S("a")>>,
      <<CallOne, DefineA, S("a")>>, <<TooDeep, DefineA>>, <<DefineA, TooDeep, S("a")>> }

ReplInputs ==
    {<<>>} \cup {<<l>> : l \in ReplLines} \cup {<<l, m>> : l, m \in ReplLines}

ReplRun ==
    \E input \in ReplInputs, interactive, startup \in BOOLEAN :
        ReplStart(input, interactive, startup)

NextRepl ==
    ReplRun \/ ReplNextLine \/ ReplLineDone \/ ReplReadEval \/ ReplKeyboardInterrupt

SpecRepl == Init /\ [][NextRepl]_vars

(* All forms of the lines of an input, in order.                           *)
RECURSIVE FormsOf(_)
FormsOf(lines) == IF lines = <<>> THEN <<>> ELSE Head(lines) \o FormsOf(Tail(lines))

(* C19, as claimed: when a form raises SchemeError or the RuntimeError of  *)
(* the recursion limit the loop prints the error and keeps every binding   *)
(* of the global frame; the loop ends only on end of input or a keyboard   *)
(* interrupt; and a loop that was not interrupted has evaluated, when it   *)
(* ends, every form of the input, the forms that follow a failing form on  *)
(* its line included.                                                      *)
C19_ReplRecovers ==
    /\ (repl.pc # "off" /\ last.op = "eval" /\ last.res.k = "err") =>
          /\ \E i \in DOMAIN repl.out : repl.out[i] = last.res
          /\ \A s \in DOMAIN last.pre[1].bindings :
                /\ s \in DOMAIN frames[1].bindings
                /\ frames[1].bindings[s] = last.pre[1].bindings[s]
    /\ repl.pc = "raised" => repl.interrupted
    /\ (repl.pc = "returned" /\ ~repl.interrupted) =>
          /\ repl.lines = <<>>
          /\ repl.evaluated = FormsOf(repl.input)

-----------------------------------------------------------------------------
(* SpecEq: one call of eq? or equal? on two operands whose values are      *)
(* numbers (0, 1, 2 and the float 1/2), booleans, symbols, string          *)
(* literals, the empty list, okay and primitive procedures.                *)

EqHeads == {"eq?", "equal?"}

EqOperands ==
    { N(0), N(1), N(2), L(<<S("/"), N(1), N(2)>>), L(<<S("/"), N(2), N(4)>>),
      Bool(TRUE), Bool(FALSE), Quoted(S("a")), Quoted(S("b")), Str("a"), Str("b"),
      Quoted(nil), L(<<S("cond")>>), S("+"), S("-") }

EqCall ==
    /\ last.op = "init"
    /\ \E name \in EqHeads, x, y \in EqOperands : SchemeEval(L(<<S(name), x, y>>), 1)

NextEq == EqCall

SpecEq == Init /\ [][NextEq]_vars

IsEqCall ==
    /\ last.op = "eval"
    /\ last.expr.t = "pair"
    /\ scheme_symbolp(last.expr.first)
    /\ last.expr.first.s \in EqHeads

(* Two values are the same variant with equal payload.                     *)
SameVariantAndPayload(x, y) == x.t = y.t /\ x = y

(* C20, as claimed: eq? and equal? return True when their two arguments    *)
(* are the same variant with equal payload and False otherwise, so that a  *)
(* number is never equal to a boolean and a symbol never to a string       *)
(* literal or a number.                                                    *)
C20_EqStructural ==
    IsEqCall =>
        last.res = [k |-> "ok",
                    v |-> Bool(SameVariantAndPayload(OperandValue(1).v,
                                                     OperandValue(2).v))]

-----------------------------------------------------------------------------
(* SpecLambda: one lambda form, with the formals (), (x) or (x y) and no   *)
(* to MaxOperands body expressions, evaluated in the global frame or in a  *)
(* child of it.                                                            *)

LambdaFormals == {nil, L(<<S("x")>>), L(<<S("x"), S("y")>>)}

LambdaBodies ==
    { N(2), S("x"), L(<<S("+"), S("x"), S("y")>>), L(<<S("f")>>),
      DefineForm(S("z"), N(1)) }

LambdaChild ==
    /\ last.op = "init"
    /\ MakeChildFrame(1, L(<<S("f")>>), L(<<N(3)>>))

LambdaEval ==
    /\ last.op \in {"init", "make_child_frame"}
    /\ \E formals \in LambdaFormals, n \in 0..MaxOperands, env \in DOMAIN frames :
          \E body \in [1..n -> LambdaBodies] :
              SchemeEval(L(<<S("lambda"), formals>> \o body), env)

NextLambda == LambdaChild \/ LambdaEval

SpecLambda == Init /\ [][NextLambda]_vars

(* C21: a lambda form with valid formals and at least one body expression  *)
(* returns, without evaluating anything else and without changing a frame, *)
(* a LambdaProcedure of the frame of the form whose formals are the form's *)
(* formals and whose body is the list of all body expressions in order, so *)
(* that the list it prints is the lambda expression; with no body          *)
(* expression it raises SchemeError.                                       *)
C21_LambdaProcedure ==
    IsForm("lambda") =>
        /\ Len(last.log) = 1
        /\ frames = last.pre
        /\ IF Len(Operands) >= 2
           THEN /\ last.res.k = "ok"
                /\ last.res.v.t = "lambda"
                /\ last.res.v.formals = Operands[1]
                /\ py_list(last.res.v.body) = Tail(Operands)
                /\ last.res.v.env = last.env
                /\ LambdaProcedure_str(last.res.v) = last.expr
           ELSE SchemeErrorRaised

(* A lambda with no formals and several body expressions was evaluated in  *)
(* the child frame.                                                        *)
C21_Witness ==
    /\ IsForm("lambda")
    /\ Operands[1] = nil
    /\ Len(Operands) = 3
    /\ last.env = 2
    /\ last.res.k = "ok"

(* A lambda with formals and no body raised.                               *)
C21_WitnessNoBody ==
    /\ IsForm("lambda")
    /\ Len(Operands) = 1
    /\ Operands[1] # nil
    /\ SchemeErrorRaised

-----------------------------------------------------------------------------
(* SpecArith: one call of +, -, * or / with no to MaxOperands arguments    *)
(* that are small integers.                                                *)

ArithHeads == {"+", "-", "*", "/"}

ArithArgs == {N(k) : k \in (0 - 2)..4}

ArithCall ==
    /\ last.op = "init"
    /\ \E name \in ArithHeads, n \in 0..MaxOperands :
          \E ops \in [1..n -> ArithArgs] : SchemeEval(L(<<S(name)>> \o ops), 1)

NextArith == ArithCall

SpecArith == Init /\ [][NextArith]_vars

IsArithCall ==
    /\ last.op = "eval"
    /\ last.expr.t = "pair"
    /\ scheme_symbolp(last.expr.first)
    /\ last.expr.first.s \in ArithHeads

(* A value is a float whose value is a whole number.                       *)
IntegralFloat(v) == v.t = "float" /\ v.q = 1

(* C22, as claimed: a result of +, -, * or / that is mathematically an     *)
(* integer is an int, never a float, in every arity, the one-argument      *)
(* forms of - and / included.                                              *)
C22_IntegralResults ==
    (IsArithCall /\ last.res.k = "ok") =>
        /\ last.res.v.t \in {"num", "float"}
        /\ ~IntegralFloat(last.res.v)

-----------------------------------------------------------------------------
(* SpecMarker: up to MaxSteps forms evaluated in the global frame, drawn   *)
(* from definitions and calls whose bodies end in tail calls: through if,  *)
(* and, or, cond, begin, let, lambda, mu and the primitives apply and      *)
(* eval.                                                                   *)

CallF(x) == L(<<S("f"), x>>)

MarkerForms ==
    { \* (define f (lambda (x) (if x (+ x 1) 0)))
      DefineForm(S("f"),
                 L(<<S("lambda"), L(<<S("x")>>),
                     L(<<S("if"), S("x"), L(<<S("+"), S("x"), N(1)>>), N(0)>>)>>)),
      \* (define (f x) (begin (and x (or #f (+ x 2)))))
      DefineForm(L(<<S("f"), S("x")>>),
                 L(<<S("begin"),
                     L(<<S("and"), S("x"),
                         L(<<S("or"), Bool(FALSE), L(<<S("+"), S("x"), N(2)>>)>>)>>)>>)),
      \* (define f (mu (x) (cond (x (f #f)) (else 4))))
      DefineForm(S("f"),
                 L(<<S("mu"), L(<<S("x")>>),
                     L(<<S("cond"), L(<<S("x"), CallF(Bool(FALSE))>>),
                         L(<<S("else"), N(4)>>)>>)>>)),
      DefineForm(S("v"), CallF(N(1))),
      DefineForm(S("v"), L(<<S("apply"), S("f"), Quoted(L(<<N(2)>>))>>)),
      DefineForm(S("v"), L(<<S("eval"), Quoted(CallF(N(3)))>>)),
      DefineForm(S("v"), LetForm(L(<<L(<<S("a"), CallF(N(1))>>)>>), <<CallF(S("a"))>>)),
      S("v"),
      CallF(CallF(N(1))),
      L(<<S("+"), N(1), L(<<S("apply"), S("f"), Quoted(L(<<N(2)>>))>>)>>),
      L(<<S("eval"), Quoted(CallF(N(3))), N(5)>>),
      L(<<S("eval"), Quoted(S("v")), N(5)>>),
      L(<<S("if"), CallF(N(1)), CallF(N(2)), N(3)>>),
      L(<<S("and"), CallF(N(1)), CallF(N(2))>>),
      L(<<S("or"), CallF(Bool(FALSE)), CallF(N(2))>>),
      L(<<S("cond"), L(<<CallF(N(1)), CallF(N(2))>>)>>),
      L(<<L(<<S("lambda"), L(<<S("x")>>), CallF(S("x"))>>), CallF(N(1))>>),
      L(<<L(<<S("mu"), nil, CallF(S("v"))>>)>>) }

MarkerEval ==
    /\ steps < MaxSteps
    /\ \E expr \in MarkerForms : SchemeEval(expr, 1)

NextMarker == MarkerEval

SpecMarker == Init /\ [][NextMarker]_vars

(* An Evaluate marker, or a list that holds one.                           *)
RECURSIVE HasMarker(_)
HasMarker(v) ==
    \/ v.t = "evaluate"
    \/ v.t = "pair" /\ (HasMarker(v.first) \/ HasMarker(v.second))

(* C28: no call of scheme_eval without the tail flag returns an Evaluate   *)
(* marker, the top-level call included, no frame binds a name to a marker, *)
(* and no procedure is applied to a marker or is one.                      *)
C28_NoMarkerEscapes ==
    last.op = "eval" =>
        /\ ~last.escaped
        /\ last.res.k = "ok" => ~HasMarker(last.res.v)
        /\ \A i \in DOMAIN frames : \A s \in DOMAIN frames[i].bindings :
              ~HasMarker(frames[i].bindings[s])
        /\ \A i \in DOMAIN last.log :
              last.log[i].e = "apply" =>
                  /\ ~HasMarker(last.log[i].procedure)
                  /\ ~HasMarker(last.log[i].args)

(* The value of a call made through apply, whose body ends in a tail call, *)
(* was bound by define.                                                    *)
C28_Witness ==
    /\ last.op = "eval"
    /\ last.expr = DefineForm(S("v"), L(<<S("apply"), S("f"), Quoted(L(<<N(2)>>))>>))
    /\ last.res.k = "ok"
    /\ \E i \in DOMAIN last.log : last.log[i].e = "eval" /\ last.log[i].tail
    /\ "v" \in DOMAIN frames[1].bindings

(* The primitive eval called with two arguments has handed a marker to the *)
(* loop of the caller.                                                     *)
C28_WitnessEval ==
    /\ last.op = "eval"
    /\ last.expr = L(<<S("eval"), Quoted(S("v")), N(5)>>)
    /\ last.res.k = "err"
    /\ last.res.exc = "AttributeError"

-----------------------------------------------------------------------------
(* The frames of the iterations of a tail loop, under SpecTail.            *)

(* The body of the procedure that the last form calls.                     *)
LoopBody ==
    IF last.expr.first.s = "loop_mu"
    THEN L(<<S("if"), IsZero, N(0), SelfCall("loop_mu")>>)
    ELSE TailBody(last.expr.first.s)

(* The calls that eval_all made for the body, one per iteration, in order. *)
BodyRuns ==
    SelectSeq(last.log, LAMBDA c : c.e = "eval" /\ c.tail /\ c.expr = LoopBody)

(* The number of frames Frame.lookup visits from f for a global name.      *)
ChainLength(f) == Len(Chain(frames, f))

(* C29, as claimed: in a tail-recursive loop of a LambdaProcedure or of a  *)
(* MuProcedure the parent chain of the frame the body runs in is as long   *)
(* on every iteration as on the first.                                     *)
C29_ChainConstant ==
    IsTailLoopCall =>
        \A i \in DOMAIN BodyRuns :
            ChainLength(BodyRuns[i].env) = ChainLength(BodyRuns[1].env)

-----------------------------------------------------------------------------
(* SpecDefineFail: up to MaxSteps define forms evaluated in the global     *)
(* frame, most of which raise: in the expression, by the number of         *)
(* operands, by the target, or by the formals of the shorthand.            *)

Unbound == S("y")

DefineFailForms ==
    { DefineForm(S("x"), N(5)),
      DefineForm(S("x"), N(6)),
      DefineForm(S("z"), N(3)),
      L(<<S("define"), L(<<S("f")>>), N(1)>>),
      DefineForm(S("x"), Unbound),
      DefineForm(S("x"), CallOne),
      DefineForm(S("x"), L(<<S("begin"), DefineForm(S("x"), N(2)), Unbound>>)),
      DefineForm(S("x"), L(<<S("begin"), DefineForm(S("z"), N(2)), Unbound>>)),
      DefineForm(S("f"), L(<<S("lambda"), L(<<S("a"), S("a")>>), S("a")>>)),
      L(<<S("define"), S("x")>>),
      L(<<S("define"), S("x"), N(1), N(2)>>),
      L(<<S("define")>>),
      DefineForm(N(5), N(1)),
      DefineForm(L(<<N(5), S("a")>>), N(1)),
      DefineForm(L(<<S("f"), S("a"), S("a")>>), N(1)),
      DefineForm(L(<<S("f"), N(5)>>), N(1)),
      L(<<S("define"), L(<<S("f")>>)>>) }

DefineFailEval ==
    /\ steps < MaxSteps
    /\ \E expr \in DefineFailForms : SchemeEval(expr, 1)

NextDefineFail == DefineFailEval

SpecDefineFail == Init /\ [][NextDefineFail]_vars

(* The last step evaluated a define form that raised and that has a        *)
(* target: a symbol, or a list headed by a symbol.                         *)
DefineFailed ==
    /\ IsForm("define")
    /\ last.res.k = "err"
    /\ Len(Operands) >= 1
    /\ \/ scheme_symbolp(Operands[1])
       \/ Operands[1].t = "pair" /\ scheme_symbolp(Operands[1].first)

DefineTarget == IF scheme_symbolp(Operands[1]) THEN Operands[1].s ELSE Operands[1].first.s

(* The binding of s in frame f of the heap fs, if any.                     *)
BindingOf(fs, f, s) ==
    IF s \in DOMAIN fs[f].bindings THEN [bound |-> TRUE, v |-> fs[f].bindings[s]]
    ELSE [bound |-> FALSE]

(* The define raised while its expression was evaluated.                   *)
ExpressionRaised ==
    /\ scheme_symbolp(Operands[1])
    /\ Len(Operands) = 2
    /\ OperandValue(2).k = "err"

(* C30, as claimed: after a define that raised, the frame's binding of the *)
(* target is identical to the one before the define.                       *)
C30_FailedDefineKeepsBinding ==
    DefineFailed =>
        BindingOf(frames, last.env, DefineTarget) =
            BindingOf(last.pre, last.env, DefineTarget)

(* C30, amended: a define that raised has itself bound nothing.  When the  *)
(* evaluation of its expression raised, the heap is as that evaluation     *)
(* left it at the raise, so that the target's binding is the one before    *)
(* the define unless the expression itself rebound the target; when the    *)
(* define raised for its operand count, its target or its formals, the     *)
(* heap is the one before the define.                                      *)
C30_FailedDefineBindsNothing ==
    DefineFailed =>
        IF ExpressionRaised
        THEN /\ frames = EvalIn(Operands[2], last.env, last.pre).st.frames
             /\ (~\E i \in DOMAIN last.log :
                     /\ i > 1
                     /\ last.log[i].e = "eval"
                     /\ last.log[i].expr.t = "pair"
                     /\ last.log[i].expr.first = S("define"))
                => BindingOf(frames, last.env, DefineTarget) =
                      BindingOf(last.pre, last.env, DefineTarget)
        ELSE frames = last.pre

(* A define of the bound symbol x whose expression raised left x as it     *)
(* was.                                                                    *)
C30_Witness ==
    /\ DefineFailed
    /\ ExpressionRaised
    /\ last.expr = DefineForm(S("x"), Unbound)
    /\ BindingOf(last.pre, 1, "x") = [bound |-> TRUE, v |-> N(5)]
    /\ BindingOf(frames, 1, "x") = [bound |-> TRUE, v |-> N(5)]

(* A shorthand with invalid formals left the bound f as it was.            *)
C30_WitnessFormals ==
    /\ DefineFailed
    /\ last.expr = DefineForm(L(<<S("f"), S("a"), S("a")>>), N(1))
    /\ BindingOf(last.pre, 1, "f").bound
    /\ BindingOf(frames, 1, "f") = BindingOf(last.pre, 1, "f")

-----------------------------------------------------------------------------
(* Ants Vs. SomeBees (src/ants/ants.py).  Places and insects are objects:  *)
(* a world w holds the sequence places of the Place objects and the        *)
(* sequence insects of the Insect objects constructed so far, each named   *)
(* by its index; 0 stands for None.  A method is an operator from a world  *)
(* to a result: the world after the call, or the exception raised and the  *)
(* world at the raise.                                                     *)

NoPlace == 0
NoInsect == 0

Done(w) == [k |-> "ok", w |-> w]
Raised(exc, w) == [k |-> "err", exc |-> exc, w |-> w]

(* Place(name, exit): no bees, no ant.                                     *)
Place(exit) == [exit |-> exit, bees |-> <<>>, ant |-> NoInsect]

(* The class attributes and the constructor of each Insect class: Bee      *)
(* takes its armor, the ants have the armor of their class; _damage and    *)
(* buffed may be set on the instance afterwards.  hammers is the action    *)
(* attribute of the instance: the closures apply_effect has wrapped around *)
(* the method of the class, innermost first, each with its duration left.  *)
Insect(class, armor) ==
    [class |-> class,
     is_ant |-> class # "Bee",
     armor |-> armor,
     place |-> NoPlace,
     blocks_path |-> class \notin {"Bee", "NinjaAnt"},
     container |-> class = "BodyguardAnt",
     ant |-> NoInsect,
     _damage |-> IF class \in {"ThrowerAnt", "NinjaAnt", "QueenAnt"} THEN 1 ELSE 0,
     buffed |-> FALSE,
     currCount |-> 0,
     hammers |-> <<>>]

Bee(armor) == Insect("Bee", armor)
ThrowerAnt == Insect("ThrowerAnt", 1)
WallAnt == Insect("WallAnt", 4)
NinjaAnt == Insect("NinjaAnt", 1)
BodyguardAnt == Insect("BodyguardAnt", 2)
(* QueenAnt(): count is QueenAnt.count, the queens constructed before.      *)
QueenAnt(count) == [Insect("QueenAnt", 1) EXCEPT !.currCount = count + 1]

(* Ant.can_contain(self, other)                                            *)
can_contain_any(w, self, other) ==
    /\ w.insects[self].container
    /\ w.insects[self].ant = NoInsect

can_contain(w, self, other) ==
    /\ w.insects[self].container
    /\ w.insects[self].ant = NoInsect
    /\ w.insects[other].container = FALSE

(* History kept for the claims: held[p] is the set of the ants that        *)
(* add_insect has put in place p and remove_insect has not taken out.      *)
Holding(w, place, insect) ==
    [w EXCEPT !.held[place] = @ \cup {insect}]

Releasing(w, place, insect) ==
    [w EXCEPT !.held[place] = @ \ {insect}]

(* Place.add_insect(self, insect), self being place.                       *)
add_insect(w, place, insect) ==
    LET self == w.places[place]
        placed(v) == Done([v EXCEPT !.insects[insect].place = place])
    IN  IF w.insects[insect].is_ant
        THEN IF self.ant # NoInsect
             THEN IF can_contain(w, self.ant, insect)
                  THEN placed(Holding([w EXCEPT !.insects[self.ant].ant = insect],
                                      place, insect))
                  ELSE IF can_contain(w, insect, self.ant)
                  THEN placed(Holding([w EXCEPT !.insects[insect].ant = self.ant,
                                                !.places[place].ant = insect],
                                      place, insect))
                  ELSE Raised("AssertionError", w)
             ELSE placed(Holding([w EXCEPT !.places[place].ant = insect], place, insect))
        ELSE placed([w EXCEPT !.places[place].bees = Append(@, insect)])

(* Place.remove_insect(self, insect)                                       *)
remove_insect(w, place, insect) ==
    LET self == w.places[place]
    IN  IF w.insects[insect].class = "QueenAnt" /\ w.insects[insect].currCount = 1
        THEN Done(w)
        ELSE IF w.insects[insect].is_ant
        THEN IF self.ant # insect THEN Raised("AssertionError", w)
             ELSE Done(Releasing(
                     [w EXCEPT !.places[place].ant =
                         IF w.insects[self.ant].container
                         THEN w.insects[self.ant].ant ELSE NoInsect],
                     place, insect))
        ELSE IF \A k \in DOMAIN self.bees : self.bees[k] # insect
        THEN Raised("ValueError", w)
        ELSE Done([w EXCEPT !.places[place].bees = list_remove(@, insect),
                            !.insects[insect].place = NoPlace])

(* Insect.reduce_armor(self, amount)                                       *)
reduce_armor(w, self, amount) ==
    LET v == [w EXCEPT !.insects[self].armor = @ - amount]
    IN  IF v.insects[self].armor <= 0
        THEN IF v.insects[self].place = NoPlace THEN Raised("AttributeError", v)
             ELSE remove_insect(v, v.insects[self].place, self)
        ELSE Done(v)

(* Bee.blocked as it would be if every ant blocked the path.                *)
blocked_by_any(w, self) ==
    w.places[w.insects[self].place].ant # NoInsect

(* Bee.blocked(self)                                                       *)
blocked(w, self) ==
    LET ant == w.places[w.insects[self].place].ant
    IN  ant # NoInsect /\ w.insects[ant].blocks_path = TRUE

(* Bee.move_to(self, place)                                                *)
move_to(w, self, place) ==
    LET removed == remove_insect(w, w.insects[self].place, self)
    IN  IF removed.k = "err" THEN removed
        ELSE IF place = NoPlace THEN Raised("AttributeError", removed.w)
        ELSE add_insect(removed.w, place, self)

(* Bee.action(self, colony), the method of the class.                      *)
Bee_action(w, self) ==
    LET place == w.insects[self].place
    IN  IF place = NoPlace THEN Raised("AttributeError", w)
        ELSE IF blocked(w, self) THEN reduce_armor(w, w.places[place].ant, 1)
        ELSE IF place # w.hive /\ w.insects[self].armor > 0
        THEN move_to(w, self, w.places[place].exit)
        ELSE Done(w)

(* The damage property of Ant.                                             *)
damage(w, self) ==
    IF w.insects[self].buffed THEN 2 * w.insects[self]._damage
    ELSE w.insects[self]._damage

(* for bee in bee_list: bee.reduce_armor(amount)                           *)
RECURSIVE strike(_, _, _)
strike(w, bee_list, amount) ==
    IF bee_list = <<>> THEN Done(w)
    ELSE LET r == reduce_armor(w, Head(bee_list), amount)
         IN  IF r.k = "err" THEN r ELSE strike(r.w, Tail(bee_list), amount)

(* The loop of NinjaAnt.action as it would be if it ran over the place's   *)
(* own list, at position x, instead of over a copy of it.                  *)
RECURSIVE strike_in_place(_, _, _, _)
strike_in_place(w, place, x, amount) ==
    IF x > Len(w.places[place].bees) THEN Done(w)
    ELSE LET r == reduce_armor(w, w.places[place].bees[x], amount)
         IN  IF r.k = "err" THEN r ELSE strike_in_place(r.w, place, x + 1, amount)

NinjaAnt_action_in_place(w, self) ==
    IF w.insects[self].place = NoPlace THEN Raised("AttributeError", w)
    ELSE strike_in_place(w, w.insects[self].place, 1, damage(w, self))

(* NinjaAnt.action(self, colony)                                           *)
NinjaAnt_action(w, self) ==
    IF w.insects[self].place = NoPlace THEN Raised("AttributeError", w)
    ELSE strike(w, w.places[w.insects[self].place].bees, damage(w, self))

-----------------------------------------------------------------------------
(* The colony of the tests: a hive, the place of the queen and a tunnel of *)
(* two places, tunnel_0_1 leading to tunnel_0_0 leading to the queen.      *)

HivePlace == 1
AntQueen == 2
tunnel_0_0 == 3
tunnel_0_1 == 4

(* AntColony(strategy, hive, ant_types, layout): time 0, no insect yet.    *)
AntColony ==
    [time |-> 0,
     hive |-> HivePlace,
     queen |-> AntQueen,
     places |-> <<Place(NoPlace), Place(NoPlace), Place(AntQueen), Place(tunnel_0_0)>>,
     insects |-> <<>>,
     held |-> [p \in 1..4 |-> {}]]

(* The insects constructed in a run are bounded.                           *)
MaxInsects == 3

(* The armor a Bee is constructed with.                                    *)
BeeArmors == {1, 2}

Classes == {"ThrowerAnt", "NinjaAnt", "BodyguardAnt", "QueenAnt", "Bee"}

(* constructor(): the new object is the last of w.insects.                 *)
construct(w, class, armor) ==
    LET queens == Cardinality({i \in DOMAIN w.insects : w.insects[i].class = "QueenAnt"})
        obj == CASE class = "Bee" -> Bee(armor)
                 [] class = "ThrowerAnt" -> ThrowerAnt
                 [] class = "WallAnt" -> WallAnt
                 [] class = "NinjaAnt" -> NinjaAnt
                 [] class = "BodyguardAnt" -> BodyguardAnt
                 [] class = "QueenAnt" -> QueenAnt(queens)
    IN  [w EXCEPT !.insects = Append(@, obj)]

NoCall == [op |-> "none", place |-> NoPlace, insect |-> NoInsect,
           k |-> "ok", exc |-> "", before |-> AntColony]

Called(op, place, insect, r, before) ==
    [op |-> op, place |-> place, insect |-> insect, k |-> r.k,
     exc |-> IF r.k = "err" THEN r.exc ELSE "", before |-> before]

(* The colony is constructed.                                              *)
ColonyStart ==
    /\ colony.pc = "off"
    /\ colony' = [pc |-> "on", w |-> AntColony, last |-> NoCall]
    /\ UNCHANGED <<frames, last, steps, repl, hog>>

(* place.add_insect(constructor()), as in deploy_ant and in the tests, for *)
(* a constructor of classes, a place of places and a bee armor of armors.  *)
Deploy(classes, places, armors) ==
    /\ colony.pc = "on"
    /\ Len(colony.w.insects) < MaxInsects
    /\ \E class \in classes, place \in places, armor \in armors :
          /\ class # "Bee" => armor = SetMin(armors)
          /\ place = HivePlace => class = "Bee"
          /\ LET v == construct(colony.w, class, armor)
                 insect == Len(v.insects)
                 r == add_insect(v, place, insect)
             IN  colony' = [colony EXCEPT !.w = r.w,
                               !.last = Called("add_insect", place, insect, r, v)]
    /\ UNCHANGED <<frames, last, steps, repl, hog>>

AddInsect == Deploy(Classes, {tunnel_0_0, tunnel_0_1}, {1})

(* place.remove_insect(insect) for an insect constructed before.           *)
RemoveInsect ==
    /\ colony.pc = "on"
    /\ \E place \in {tunnel_0_0, tunnel_0_1}, insect \in DOMAIN colony.w.insects :
          LET r == remove_insect(colony.w, place, insect)
          IN  colony' = [colony EXCEPT !.w = r.w,
                            !.last = Called("remove_insect", place, insect, r, colony.w)]
    /\ UNCHANGED <<frames, last, steps, repl, hog>>

NextPlace == ColonyStart \/ AddInsect \/ RemoveInsect

SpecPlace == Init /\ [][NextPlace]_vars

(* The ants a place holds: its ant and the ant its ant contains.           *)
AntsOf(w, place) ==
    LET ant == w.places[place].ant
    IN  IF ant = NoInsect THEN {}
        ELSE {ant} \cup ({w.insects[ant].ant} \ {NoInsect})

(* The rule: no ant, one ant, or two of which exactly one is a             *)
(* BodyguardAnt, the one that contains the other.                          *)
AntRule(w, ants) ==
    \/ Cardinality(ants) <= 1
    \/ /\ Cardinality(ants) = 2
       /\ \E g \in ants : \E a \in ants \ {g} :
             /\ w.insects[g].class = "BodyguardAnt"
             /\ w.insects[a].class # "BodyguardAnt"
             /\ w.insects[g].ant = a

(* The ants that may be together in a place: one, or two of which exactly  *)
(* one is a BodyguardAnt.                                                  *)
CanJoin(w, ants) ==
    \/ Cardinality(ants) <= 1
    \/ /\ Cardinality(ants) = 2
       /\ Cardinality({a \in ants : w.insects[a].class = "BodyguardAnt"}) = 1

(* C25: after any sequence of add_insect and remove_insect calls the ants  *)
(* added to a place and not removed from it are its ant and the ant that   *)
(* one contains, and they are at most one ant, or two of which exactly one *)
(* is a BodyguardAnt containing the other; add_insect of an ant fails      *)
(* exactly when the ant cannot join the place's ants under this rule, it   *)
(* then raises AssertionError and leaves the place's ant, the place's bees *)
(* and the new insect's place as they were; add_insect of a bee always     *)
(* succeeds and appends the bee to the place's bees.                       *)
C25_PlaceHoldsOneAnt ==
    colony.pc = "on" =>
        LET w == colony.w
            c == colony.last
            b == c.before
        IN  /\ \A p \in DOMAIN w.places :
                  /\ w.held[p] = AntsOf(w, p)
                  /\ AntRule(w, w.held[p])
            /\ (c.op = "add_insect" /\ b.insects[c.insect].is_ant) =>
                  (c.k = "err" <=> ~CanJoin(b, b.held[c.place] \cup {c.insect}))
            /\ (c.op = "add_insect" /\ c.k = "err") =>
                  /\ c.exc = "AssertionError"
                  /\ w.places[c.place].ant = b.places[c.place].ant
                  /\ w.places[c.place].bees = b.places[c.place].bees
                  /\ w.insects[c.insect].place = b.insects[c.insect].place
                  /\ w.held = b.held
            /\ (c.op = "add_insect" /\ ~b.insects[c.insect].is_ant) =>
                  /\ c.k = "ok"
                  /\ w.places[c.place].bees = Append(b.places[c.place].bees, c.insect)
                  /\ w.insects[c.insect].place = c.place

(* A third ant is refused by a place that holds a BodyguardAnt and the ant *)
(* it contains.                                                            *)
C25_Witness ==
    /\ colony.pc = "on"
    /\ colony.last.op = "add_insect"
    /\ colony.last.k = "err"
    /\ Cardinality(colony.w.held[colony.last.place]) = 2

(* A place is left with the contained ant when its BodyguardAnt is removed. *)
C25_WitnessRemoved ==
    /\ colony.pc = "on"
    /\ colony.last.op = "remove_insect"
    /\ colony.last.k = "ok"
    /\ Cardinality(colony.last.before.held[colony.last.place]) = 2
    /\ Cardinality(colony.w.held[colony.last.place]) = 1

-----------------------------------------------------------------------------
(* Bees and a NinjaAnt acting, as in AntColony.simulate and in the tests.  *)

(* Bees enter the hive and the tunnel, ants are deployed in the tunnel.    *)
Arrive ==
    Deploy({"Bee", "NinjaAnt", "ThrowerAnt", "BodyguardAnt"},
           {HivePlace, tunnel_0_0, tunnel_0_1}, BeeArmors)

(* Hive.strategy: a bee of the hive moves to the entrance of the tunnel.   *)
HiveStrategy ==
    /\ colony.pc = "on"
    /\ \E k \in DOMAIN colony.w.places[HivePlace].bees :
          LET bee == colony.w.places[HivePlace].bees[k]
              r == move_to(colony.w, bee, tunnel_0_1)
          IN  colony' = [colony EXCEPT !.w = r.w,
                            !.last = Called("Bee.move_to", HivePlace, bee, r, colony.w)]
    /\ UNCHANGED <<frames, last, steps, repl, hog>>

(* for bee in self.bees: if bee.armor > 0: bee.action(self); the loop of   *)
(* simulate has ended when a bee is in the place of the queen.             *)
BeeAct ==
    /\ colony.pc = "on"
    /\ colony.w.places[colony.w.queen].bees = <<>>
    /\ \E place \in DOMAIN colony.w.places :
       \E k \in DOMAIN colony.w.places[place].bees :
          LET bee == colony.w.places[place].bees[k]
              r == Bee_action(colony.w, bee)
          IN  /\ colony.w.insects[bee].armor > 0
              /\ colony' = [colony EXCEPT !.w = r.w,
                               !.last = Called("Bee.action", place, bee, r, colony.w)]
    /\ UNCHANGED <<frames, last, steps, repl, hog>>

(* for ant in self.ants: if ant.armor > 0: ant.action(self), and           *)
(* ninja.action(colony) of the tests, for a NinjaAnt in a place.           *)
NinjaAct ==
    /\ colony.pc = "on"
    /\ \E ant \in DOMAIN colony.w.insects :
          LET r == NinjaAnt_action(colony.w, ant)
              place == colony.w.insects[ant].place
          IN  /\ colony.w.insects[ant].class = "NinjaAnt"
              /\ place # NoPlace
              /\ ant \in colony.w.held[place]
              /\ colony.w.insects[ant].armor > 0
              /\ colony' = [colony EXCEPT !.w = r.w,
                               !.last = Called("NinjaAnt.action", place, ant, r, colony.w)]
    /\ UNCHANGED <<frames, last, steps, repl, hog>>

(* The damage a test assigns to an ant: ant.damage = value.                *)
Damages == {2}

SetDamage ==
    /\ colony.pc = "on"
    /\ \E ant \in DOMAIN colony.w.insects, value \in Damages :
          /\ colony.w.insects[ant].class = "NinjaAnt"
          /\ colony.w.insects[ant]._damage # value
          /\ colony' = [colony EXCEPT !.w.insects[ant]._damage = value,
                           !.last = Called("damage.fset", NoPlace, ant,
                                           Done(colony.w), colony.w)]
    /\ UNCHANGED <<frames, last, steps, repl, hog>>

(* QueenAnt.action: an ant of the queen's tunnel is buffed.                *)
Buff ==
    /\ colony.pc = "on"
    /\ \E ant \in DOMAIN colony.w.insects :
          /\ colony.w.insects[ant].class = "NinjaAnt"
          /\ colony.w.insects[ant].place # NoPlace
          /\ ~colony.w.insects[ant].buffed
          /\ colony' = [colony EXCEPT !.w.insects[ant].buffed = TRUE,
                           !.last = Called("buffed", NoPlace, ant,
                                           Done(colony.w), colony.w)]
    /\ UNCHANGED <<frames, last, steps, repl, hog>>

NextBee == ColonyStart \/ Arrive \/ HiveStrategy \/ BeeAct \/ NinjaAct \/ SetDamage \/ Buff

SpecBee == Init /\ [][NextBee]_vars

IsBeeAction == colony.pc = "on" /\ colony.last.op = "Bee.action"

(* The armor of every ant of world w is as in world b.                     *)
AntsKeepArmor(w, b) ==
    \A i \in DOMAIN b.insects :
        b.insects[i].is_ant => w.insects[i].armor = b.insects[i].armor

(* C23: one Bee.action, by the ant of the bee's place.  If there is an ant *)
(* whose blocks_path is True the bee stings it, i.e. that ant's armor      *)
(* drops by 1 and no other armor changes, and the bee stays: its place and *)
(* the bees of every place are unchanged.  If there is no ant or the ant   *)
(* is a NinjaAnt, a bee outside the hive with armor > 0 moves to the exit: *)
(* it leaves the bees of its place, is appended to the bees of the exit,   *)
(* its place is the exit, and no ant loses armor; a bee in the hive does   *)
(* nothing.                                                                *)
C23_BeeAction ==
    IsBeeAction =>
        LET w == colony.w
            b == colony.last.before
            bee == colony.last.insect
            place == b.insects[bee].place
            exit == b.places[place].exit
            ant == b.places[place].ant
        IN  /\ colony.last.k = "ok"
            /\ (ant # NoInsect /\ b.insects[ant].blocks_path) =>
                  /\ w.insects[ant].armor = b.insects[ant].armor - 1
                  /\ \A i \in DOMAIN b.insects \ {ant} :
                        w.insects[i].armor = b.insects[i].armor
                  /\ w.insects[bee].place = place
                  /\ \A p \in DOMAIN b.places : w.places[p].bees = b.places[p].bees
            /\ (ant = NoInsect \/ b.insects[ant].class = "NinjaAnt") =>
                  IF place # b.hive /\ b.insects[bee].armor > 0
                  THEN /\ w.places[place].bees = list_remove(b.places[place].bees, bee)
                       /\ w.places[exit].bees = Append(b.places[exit].bees, bee)
                       /\ \A k \in DOMAIN w.places[place].bees :
                             w.places[place].bees[k] # bee
                       /\ w.insects[bee].place = exit
                       /\ AntsKeepArmor(w, b)
                       /\ \A p \in DOMAIN b.places : w.places[p].ant = b.places[p].ant
                  ELSE w = b

(* A bee has passed a NinjaAnt.                                            *)
C23_Witness ==
    /\ IsBeeAction
    /\ LET b == colony.last.before
           ant == b.places[colony.last.place].ant
       IN  /\ ant # NoInsect
           /\ b.insects[ant].class = "NinjaAnt"
           /\ colony.w.insects[colony.last.insect].place = b.places[colony.last.place].exit

(* A bee has stung a BodyguardAnt that contains a NinjaAnt.                 *)
C23_WitnessSting ==
    /\ IsBeeAction
    /\ LET b == colony.last.before
           ant == b.places[colony.last.place].ant
       IN  /\ ant # NoInsect
           /\ b.insects[ant].class = "BodyguardAnt"
           /\ b.insects[ant].ant # NoInsect
           /\ b.insects[b.insects[ant].ant].class = "NinjaAnt"
           /\ colony.w.insects[ant].armor = b.insects[ant].armor - 1

IsNinjaAction == colony.pc = "on" /\ colony.last.op = "NinjaAnt.action"

(* The bees of list bees that have armor left in world w, in their order.  *)
Survivors(w, bees) == SelectSeq(bees, LAMBDA bee : w.insects[bee].armor > 0)

(* What the instance's damage is: the value assigned last, or the class's  *)
(* 1, doubled for a buffed ant.                                            *)
CurrentDamage(b, ant) ==
    (IF b.insects[ant].buffed THEN 2 ELSE 1) * b.insects[ant]._damage

(* C24: one NinjaAnt.action takes the ninja's current damage exactly once  *)
(* from the armor of every bee that was in the ninja's place when it       *)
(* began; the bees left with armor 0 or less, however many, are removed    *)
(* from the place (their place is None) and the others stay in their       *)
(* order; the bees of the other places, the armor of every other insect    *)
(* and the ants of the places are untouched; with no bee in the place      *)
(* nothing changes.                                                        *)
C24_NinjaStrike ==
    IsNinjaAction =>
        LET w == colony.w
            b == colony.last.before
            ninja == colony.last.insect
            place == b.insects[ninja].place
            bees == b.places[place].bees
            struck == {bees[k] : k \in DOMAIN bees}
        IN  /\ colony.last.k = "ok"
            /\ \A bee \in struck :
                  /\ w.insects[bee].armor = b.insects[bee].armor - CurrentDamage(b, ninja)
                  /\ w.insects[bee].place =
                        IF w.insects[bee].armor <= 0 THEN NoPlace ELSE place
            /\ w.places[place].bees = Survivors(w, bees)
            /\ \A p \in DOMAIN b.places :
                  /\ p # place => w.places[p].bees = b.places[p].bees
                  /\ w.places[p].ant = b.places[p].ant
            /\ \A i \in DOMAIN b.insects \ struck : w.insects[i] = b.insects[i]
            /\ bees = <<>> => w = b

(* Two bees have expired in one action while a bee elsewhere was spared.   *)
C24_Witness ==
    /\ IsNinjaAction
    /\ LET b == colony.last.before
           place == colony.last.place
       IN  /\ Len(b.places[place].bees) = 2
           /\ colony.w.places[place].bees = <<>>

(* A buffed ninja with an assigned damage has struck a bee that survives   *)
(* while a bee in another place is untouched.                              *)
C24_WitnessElsewhere ==
    /\ IsNinjaAction
    /\ LET b == colony.last.before
           place == colony.last.place
       IN  /\ Len(b.places[place].bees) = 1
           /\ \E p \in DOMAIN b.places \ {place} : b.places[p].bees # <<>>
           /\ CurrentDamage(b, colony.last.insect) = 2

-----------------------------------------------------------------------------
(* Status effects.  bee.action is an attribute of the instance: the method *)
(* of the class until apply_effect replaces it by a closure hammer over    *)
(* the action it finds there.  hammers[k] holds the effect and the         *)
(* duration variable of the k-th closure; its old_action is the closure    *)
(* k - 1, or Bee.action for k = 1.  A call returns the result r and, for   *)
(* the claims, what it went through: ran tells whether Bee.action was      *)
(* called, used the closures that called their new_action, passed those    *)
(* that called their old_action.                                           *)

Went(r, ran, used, passed) ==
    [r |-> r, ran |-> ran, used |-> used, passed |-> passed]

RECURSIVE hammer(_, _, _)

(* stun_effect(colony) of make_stun(action)                                *)
make_stun(w, bee, k) == Went(Done(w), FALSE, {k}, {})

(* slow_effect(colony) of make_slow(action), action being closure k - 1.   *)
make_slow(w, bee, k) ==
    IF w.time % 2 = 0
    THEN LET c == hammer(w, bee, k - 1)
         IN  [c EXCEPT !.used = @ \cup {k}]
    ELSE Went(Done(w), FALSE, {k}, {})

(* new_action = effect(old_action)                                         *)
new_action(w, bee, k) ==
    IF w.insects[bee].hammers[k].effect = "make_stun"
    THEN make_stun(w, bee, k)
    ELSE make_slow(w, bee, k)

(* hammer as it would be if it tested duration >= 0.                       *)
hammer_inclusive(w, bee, k) ==
    IF k = 0 THEN Went(Bee_action(w, bee), TRUE, {}, {})
    ELSE IF w.insects[bee].hammers[k].duration >= 0
    THEN new_action([w EXCEPT !.insects[bee].hammers[k].duration = @ - 1], bee, k)
    ELSE LET c == hammer(w, bee, k - 1)
         IN  [c EXCEPT !.passed = @ \cup {k}]

(* hammer(colony) of apply_effect, closure k of the bee; closure 0 is the  *)
(* method Bee.action.                                                      *)
hammer(w, bee, k) ==
    IF k = 0 THEN Went(Bee_action(w, bee), TRUE, {}, {})
    ELSE IF w.insects[bee].hammers[k].duration > 0
    THEN new_action([w EXCEPT !.insects[bee].hammers[k].duration = @ - 1], bee, k)
    ELSE LET c == hammer(w, bee, k - 1)
         IN  [c EXCEPT !.passed = @ \cup {k}]

(* bee.action(colony)                                                      *)
bee_action(w, bee) == hammer(w, bee, Len(w.insects[bee].hammers))

(* apply_effect(effect, bee, duration).  History kept for the claims: d is *)
(* the duration applied, calls counts the calls of bee.action since, up to *)
(* d + 1, and uses the calls in which the closure ran its new_action.      *)
apply_effect(w, effect, bee, duration) ==
    [w EXCEPT !.insects[bee].hammers =
        Append(@, [effect |-> effect, duration |-> duration,
                   d |-> duration, calls |-> 0, uses |-> 0])]

(* The history of the closures of bee after a call that went c.            *)
Counted(w, bee, c) ==
    LET hs == w.insects[bee].hammers
    IN  [w EXCEPT !.insects[bee].hammers =
            [k \in DOMAIN hs |->
                [hs[k] EXCEPT !.calls = IF @ <= hs[k].d THEN @ + 1 ELSE @,
                              !.uses = IF k \in c.used THEN @ + 1 ELSE @]]]

(* The effects the throwers apply: SlowThrower and StunThrower.            *)
Thrown == {<<"make_slow", 3>>, <<"make_stun", 1>>}

(* The closures around one bee's action and colony.time are bounded.       *)
MaxEffects == 2
MaxTime == 3

(* The colony of the effect tests: a bee at the entrance of the tunnel,    *)
(* with a WallAnt in none or one of the tunnel's places.                   *)
Invade ==
    /\ colony.pc = "on"
    /\ colony.w.insects = <<>>
    /\ \E place \in {NoPlace, tunnel_0_0, tunnel_0_1} :
          LET v == IF place = NoPlace THEN colony.w
                   ELSE add_insect(construct(colony.w, "WallAnt", 4), place, 1).w
              bee == Len(v.insects) + 1
              r == add_insect(construct(v, "Bee", 1), tunnel_0_1, bee)
          IN  colony' = [colony EXCEPT !.w = r.w,
                            !.last = Called("add_insect", tunnel_0_1, bee, r, v)]
    /\ UNCHANGED <<frames, last, steps, repl, hog>>

(* throw_at(target): apply_effect(effect, target, duration)                *)
ApplyEffect ==
    /\ colony.pc = "on"
    /\ \E bee \in DOMAIN colony.w.insects, e \in Thrown :
          /\ colony.w.insects[bee].class = "Bee"
          /\ colony.w.insects[bee].place # NoPlace
          /\ Len(colony.w.insects[bee].hammers) < MaxEffects
          /\ colony' = [colony EXCEPT
                           !.w = apply_effect(colony.w, e[1], bee, e[2]),
                           !.last = Called("apply_effect", NoPlace, bee,
                                           Done(colony.w), colony.w)]
    /\ UNCHANGED <<frames, last, steps, repl, hog>>

(* bee.action(colony) for a bee with armor, as in simulate.                *)
BeeCall ==
    /\ colony.pc = "on"
    /\ colony.w.places[colony.w.queen].bees = <<>>
    /\ \E place \in DOMAIN colony.w.places :
       \E x \in DOMAIN colony.w.places[place].bees :
          LET bee == colony.w.places[place].bees[x]
              c == bee_action(colony.w, bee)
          IN  /\ colony.w.insects[bee].armor > 0
              /\ colony' = [colony EXCEPT
                               !.w = Counted(c.r.w, bee, c),
                               !.last = [op |-> "bee.action", place |-> place,
                                         insect |-> bee, k |-> c.r.k,
                                         exc |-> IF c.r.k = "err" THEN c.r.exc ELSE "",
                                         before |-> colony.w, ran |-> c.ran,
                                         used |-> c.used, passed |-> c.passed]]
    /\ UNCHANGED <<frames, last, steps, repl, hog>>

(* self.time += 1 at the end of a turn of simulate.                        *)
Tick ==
    /\ colony.pc = "on"
    /\ colony.w.time < MaxTime
    /\ colony' = [colony EXCEPT !.w.time = @ + 1,
                     !.last = Called("time", NoPlace, NoInsect, Done(colony.w), colony.w)]
    /\ UNCHANGED <<frames, last, steps, repl, hog>>

NextEffects == ColonyStart \/ Invade \/ ApplyEffect \/ BeeCall \/ Tick

SpecEffects == Init /\ [][NextEffects]_vars

IsBeeCall == colony.pc = "on" /\ colony.last.op = "bee.action"

(* Closure k of the bee ran the effect version of its action in the call:  *)
(* nothing for a stun; for a slow its old_action, at an even time only.    *)
RanEffectVersion(c, b, bee, k) ==
    /\ k \in c.used
    /\ LET below == IF k = 1 THEN c.ran ELSE k - 1 \in c.used \cup c.passed
       IN  below <=> (b.insects[bee].hammers[k].effect = "make_slow" /\ b.time % 2 = 0)

(* Closure k of the bee ran its original action, the action bee.action was *)
(* when the effect was applied.                                            *)
RanOriginal(c, b, bee, k) ==
    /\ k \in c.passed
    /\ IF k = 1 THEN c.ran ELSE k - 1 \in c.used \cup c.passed

(* C26 as stated, for every effect applied to the bee: counting the calls  *)
(* of bee.action since its apply_effect(effect, bee, d), each of the first *)
(* d runs the effect version and every later one runs the original action; *)
(* the effect is used in at most d calls.                                  *)
C26_EffectLastsNextCalls ==
    IsBeeCall =>
        LET c == colony.last
            bee == c.insect
            hs == colony.w.insects[bee].hammers
        IN  \A k \in DOMAIN hs :
                /\ hs[k].calls <= hs[k].d => RanEffectVersion(c, c.before, bee, k)
                /\ hs[k].calls > hs[k].d => RanOriginal(c, c.before, bee, k)
                /\ hs[k].uses <= hs[k].d

(* Closure k is the last one applied to the bee and every earlier one has  *)
(* used up its duration.                                                   *)
Alone(b, bee, k) ==
    /\ k = Len(b.insects[bee].hammers)
    /\ \A j \in 1..(k - 1) : b.insects[bee].hammers[j].duration = 0

SetMax(A) == CHOOSE a \in A : \A b \in A : a >= b

(* The closures a call of bee.action uses in world b: none when none has   *)
(* duration left; at an odd time the outermost with duration left; at an   *)
(* even time those with duration left, from the outermost down to the      *)
(* first stun.                                                             *)
UsedIn(b, bee) ==
    LET hs == b.insects[bee].hammers
        active == {k \in DOMAIN hs : hs[k].duration > 0}
        stuns == {k \in active : hs[k].effect = "make_stun"}
        top == SetMax(active)
    IN  IF active = {} THEN {}
        ELSE IF hs[top].effect = "make_stun" \/ b.time % 2 # 0 THEN {top}
        ELSE IF stuns = {} THEN active
        ELSE {k \in active : k >= SetMax(stuns)}

(* C26, amended: an effect is used by the calls that reach it, not by the  *)
(* calls that follow its application.  A call of bee.action uses the       *)
(* closures of UsedIn and lowers the duration of exactly those by 1; it    *)
(* runs Bee.action iff none of them is a stun and, when there is one, the  *)
(* time is even.  Every effect applied with duration d is used in at most  *)
(* d calls, d less its duration left.  For the effect applied last, in a   *)
(* call made when every earlier effect is used up, the statement of the    *)
(* claim holds: each of the first d calls since its application runs the   *)
(* effect version, every later one runs Bee.action.                        *)
C26_EffectLastsItsCalls ==
    IsBeeCall =>
        LET c == colony.last
            b == c.before
            bee == c.insect
            old == b.insects[bee].hammers
            hs == colony.w.insects[bee].hammers
        IN  /\ c.k = "ok"
            /\ c.used = UsedIn(b, bee)
            /\ c.ran <=> /\ \A k \in c.used : old[k].effect = "make_slow"
                         /\ c.used # {} => b.time % 2 = 0
            /\ \A k \in DOMAIN hs :
                  /\ hs[k].duration = old[k].duration - (IF k \in c.used THEN 1 ELSE 0)
                  /\ hs[k].uses <= hs[k].d
                  /\ hs[k].uses = hs[k].d - hs[k].duration
                  /\ Alone(b, bee, k) =>
                        /\ hs[k].calls <= hs[k].d => RanEffectVersion(c, b, bee, k)
                        /\ hs[k].calls > hs[k].d => RanOriginal(c, b, bee, k) /\ c.ran

(* A slow applied before a second slow is still in effect in the fourth    *)
(* call after its application.                                             *)
C26_Witness ==
    /\ IsBeeCall
    /\ \E k \in DOMAIN colony.w.insects[colony.last.insect].hammers :
          LET h == colony.w.insects[colony.last.insect].hammers[k]
          IN  /\ h.effect = "make_slow"
              /\ h.calls > h.d
              /\ k \in colony.last.used
              /\ ~colony.last.ran

(* A single slow has run Bee.action at an even time within its three calls *)
C26_WitnessSlow ==
    /\ IsBeeCall
    /\ LET hs == colony.w.insects[colony.last.insect].hammers
       IN  /\ Len(hs) = 1
           /\ hs[1].effect = "make_slow"
           /\ hs[1].calls = 3
           /\ colony.last.used = {1}
           /\ colony.last.ran

(* A single effect has ended: the call after its d calls runs Bee.action.  *)
C26_WitnessEnded ==
    /\ IsBeeCall
    /\ LET hs == colony.w.insects[colony.last.insect].hammers
       IN  /\ Len(hs) = 1
           /\ hs[1].calls > hs[1].d
           /\ colony.last.passed = {1}
           /\ colony.last.ran
           /\ colony.last.before.time % 2 = 1

-----------------------------------------------------------------------------
(* The Game of Hog (src/hog/hog.py).                                       *)

GOAL_SCORE == 100

(* The dice a strategy of the model asks for are bounded.                  *)
MaxRolls == 2

(* four_sided and six_sided of dice.py: the outcomes of one roll.          *)
four_sided == 1..4
six_sided == 1..6

(* roll_dice(num_rolls, dice), outcomes being what dice() returns call     *)
(* after call: sum_and_k is the loop from the state (sum, k).              *)
RECURSIVE sum_and_k(_, _, _)
sum_and_k(sum, k, outcomes) ==
    IF ~(Len(outcomes) > k) THEN sum
    ELSE LET score == outcomes[k + 1]
         IN  IF score = 1 THEN sum_and_k(1, k + 1, outcomes)
             ELSE IF sum # 1 THEN sum_and_k(sum + score, k + 1, outcomes)
             ELSE sum_and_k(sum, k + 1, outcomes)

roll_dice(num_rolls, outcomes) ==
    IF ~(num_rolls > 0) THEN [k |-> "err", exc |-> "AssertionError"]
    ELSE [k |-> "ok", v |-> sum_and_k(0, 0, outcomes)]

host_max(a, b) == IF a >= b THEN a ELSE b

(* take_turn(num_rolls, opponent_score, dice)                              *)
take_turn(num_rolls, opponent_score, outcomes) ==
    IF ~(num_rolls >= 0) \/ ~(num_rolls <= 10) \/ ~(opponent_score < 100)
    THEN [k |-> "err", exc |-> "AssertionError"]
    ELSE IF num_rolls # 0 THEN roll_dice(num_rolls, outcomes)
    ELSE LET a == opponent_score \div 10
             b == opponent_score - a * 10
         IN  [k |-> "ok", v |-> 1 + host_max(a, b)]

(* select_dice(score, opponent_score)                                      *)
select_dice(score, opponent_score) ==
    IF (score + opponent_score) % 7 = 0 THEN four_sided ELSE six_sided

(* is_prime(n): no k in 2..n/2 divides n.                                  *)
is_prime(n) ==
    IF n = 1 \/ n = 0 THEN FALSE
    ELSE \A k \in 2..(n \div 2) : n % k # 0

other(who) == 1 - who

(* The strategies of the model: always_roll(n) and bacon_strategy with     *)
(* margin 8 and num_rolls MaxRolls.                                        *)
always_roll(n) == [name |-> "always_roll", n |-> n]
bacon_strategy == [name |-> "bacon_strategy", n |-> MaxRolls]

Strategies == {always_roll(n) : n \in 0..MaxRolls} \cup {bacon_strategy}

(* strategy(score, opponent_score)                                         *)
strategy_call(strategy, score, opponent_score) ==
    IF strategy.name = "always_roll" THEN [k |-> "ok", v |-> strategy.n]
    ELSE LET bacon_score == take_turn(0, opponent_score, <<>>)
         IN  IF bacon_score.k = "err" THEN bacon_score
             ELSE [k |-> "ok", v |-> IF bacon_score.v < 8 THEN strategy.n ELSE 0]

(* The goals of the model and the scores a game starts from.               *)
Goals == {10, GOAL_SCORE, 103}
Starts(goal) == {goal - 10, goal - 5}

(* play(strategy0, strategy1, score0, score1, goal) is called.             *)
Play ==
    /\ hog.pc = "off"
    /\ \E strategy0 \in Strategies, strategy1 \in Strategies, goal \in Goals :
       \E score0 \in Starts(goal), score1 \in Starts(goal) :
          hog' = [pc |-> "playing", who |-> 0, score0 |-> score0, score1 |-> score1,
                  goal |-> goal, strategy0 |-> strategy0, strategy1 |-> strategy1,
                  turns |-> 0, asked |-> <<>>, runscore |-> 0,
                  before |-> <<score0, score1>>]
    /\ UNCHANGED <<frames, last, steps, repl, colony>>

(* One pass through the body of the while loop of play.  History kept for  *)
(* the claims: turns counts the passes, asked is the strategy call of the  *)
(* pass (whose strategy, with which arguments), before the scores at its   *)
(* start.                                                                  *)
Turn ==
    /\ hog.pc = "playing"
    /\ hog.score0 < hog.goal /\ hog.score1 < hog.goal
    /\ LET dice == select_dice(hog.score0, hog.score1)
           asked == IF hog.who = 0 THEN <<0, hog.score0, hog.score1>>
                    ELSE <<1, hog.score1, hog.score0>>
           called == IF hog.who = 0
                     THEN strategy_call(hog.strategy0, hog.score0, hog.score1)
                     ELSE strategy_call(hog.strategy1, hog.score1, hog.score0)
           num_rolls == IF called.k = "err" THEN 0 ELSE called.v
       IN  \E outcomes \in [1..num_rolls -> dice] :
              LET turn == IF called.k = "err" THEN called
                          ELSE take_turn(num_rolls,
                                         IF hog.who = 0 THEN hog.score1 ELSE hog.score0,
                                         outcomes)
                  seen == [hog EXCEPT !.turns = @ + 1, !.asked = asked,
                                      !.before = <<hog.score0, hog.score1>>]
              IN  IF turn.k = "err"
                  THEN hog' = [seen EXCEPT !.pc = "raised"]
                  ELSE LET runscore == turn.v
                           s0 == IF hog.who = 0 THEN hog.score0 + runscore ELSE hog.score0
                           s1 == IF hog.who = 1 THEN hog.score1 + runscore ELSE hog.score1
                           boost == is_prime(s0 + s1) /\ s0 # s1
                       IN  hog' = [seen EXCEPT
                                      !.score0 = IF boost /\ s0 > s1 THEN s0 + runscore ELSE s0,
                                      !.score1 = IF boost /\ ~(s0 > s1) THEN s1 + runscore ELSE s1,
                                      !.runscore = runscore,
                                      !.who = other(hog.who)]
    /\ UNCHANGED <<frames, last, steps, repl, colony>>

(* The while condition fails: return score0, score1.                       *)
Return ==
    /\ hog.pc = "playing"
    /\ ~(hog.score0 < hog.goal /\ hog.score1 < hog.goal)
    /\ hog' = [hog EXCEPT !.pc = "returned"]
    /\ UNCHANGED <<frames, last, steps, repl, colony>>

NextHog == Play \/ Turn \/ Return

SpecHog == Init /\ [][NextHog]_vars

(* play runs on: a pass of the loop or the return is taken when it can be. *)
SpecHogFair == SpecHog /\ WF_vars(Turn) /\ WF_vars(Return)

(* The state of a game: turns alternate from player 0, the strategy asked  *)
(* in a turn is the mover's, with (own score, opponent's score); a turn is *)
(* taken only while both scores are below goal and adds at least 1 to the  *)
(* mover's score and nothing less than 0 to the other's; play raises       *)
(* nothing.                                                                *)
GameInOrder ==
    hog.pc # "off" =>
        /\ hog.pc # "raised"
        /\ hog.pc = "playing" => hog.who = hog.turns % 2
        /\ hog.pc = "returned" => (hog.score0 >= hog.goal \/ hog.score1 >= hog.goal)
        /\ hog.turns > 0 =>
              LET mover == (hog.turns - 1) % 2
                  own == hog.before[mover + 1]
                  opponent == hog.before[other(mover) + 1]
                  now == <<hog.score0, hog.score1>>
              IN  /\ hog.asked = <<mover, own, opponent>>
                  /\ hog.before[1] < hog.goal /\ hog.before[2] < hog.goal
                  /\ hog.runscore >= 1
                  /\ now[mover + 1] >= own + hog.runscore
                  /\ now[other(mover) + 1] >= opponent

(* C27: play takes turns strictly alternately from player 0, asks only the *)
(* mover's strategy with (own score, opponent's score), takes a turn only  *)
(* while both scores are below goal, each turn adding at least 1, and for  *)
(* every goal it ends by returning the scores with one of them at least    *)
(* goal.                                                                   *)
C27_PlayTerminates ==
    /\ []GameInOrder
    /\ (hog.pc = "playing") ~> (hog.pc = "returned")

(* The same for the goals up to GOAL_SCORE, the bound take_turn asserts.   *)
C27_PlayTerminatesToGoalScore ==
    /\ []((hog.pc # "off" /\ hog.goal <= GOAL_SCORE) => GameInOrder)
    /\ (hog.pc = "playing" /\ hog.goal <= GOAL_SCORE) ~> (hog.pc = "returned")

=============================================================================
